---- MODULE Spec2Model ----
(***************************************************************************)
(* Model of the PR triage and approval engine of ghprs (cmd/list.go):      *)
(* the PRDetailsCache, the interactive approval session, and the pure      *)
(* functions used for sorting, classifying and displaying PRs.             *)
(*                                                                         *)
(* The specifications share the variables below:                           *)
(*   Spec       the interactive approval session (approvePRsWithConfig)    *)
(*   SpecCache  one PRDetailsCache driven by sequential GetOrFetch calls   *)
(*   SpecConc   one PRDetailsCache shared by several goroutines            *)
(*   SpecSort   the sort functions and the sort block of listPullRequests  *)
(*   SpecTekton checkTektonFilesDetailed on one list of changed files      *)
(*   SpecIcon   getStatusIcon on one PR                                     *)
(*   SpecText   TruncateString and DisplayWidth on one string               *)
(*   SpecStrip  StripANSISequences on one string, applied once and twice    *)
(*   SpecReviewed   isReviewed on one PR's labels and reviews               *)
(*   SpecMigration  hasMigrationWarning on one PR body                      *)
(*   SpecConfig AddRepository and RemoveRepository calls on one Config      *)
(***************************************************************************)
EXTENDS Integers, Sequences, FiniteSets, TLC

VARIABLES
    \* ---- shared by all specifications
    cache,           \* PRDetailsCache.cache: PR number -> PullRequest
    detailsGets,     \* PR number -> Gets issued to repos/o/r/pulls/{n}
    \* ---- the sequential cache driver (SpecCache)
    callCount,       \* GetOrFetch calls made so far
    lastCall,        \* the last GetOrFetch call: arguments and outcome
    firstGet,        \* PR number -> outcome of the first details Get
    \* ---- the approval session (Spec)
    pullRequests,    \* the listed PRs handed to approvePRsWithConfig
    config,          \* ApprovalConfig
    flags,           \* the command-line flag globals the session reads
    pc,              \* where the session is blocked (which prompt), or ended
    processedPRs,    \* processedPRs map (its key set)
    approvedCount, skippedCount, heldCount, commentedCount,
    selected,        \* Number of the PR under review (0: none)
    reviewsSeen,     \* whether the open round's reviews Get held an APPROVED review
                     \* ("approved", "other"; "none": no round open)
    override,        \* the continue-anyway question of the round
    lastPrompt,      \* the prompt the last input answered
    lastResult,      \* ApprovalResult of the round that just ended
    lastPosts,       \* the POSTs issued by the last step, in order
    reviewPosts,     \* PR number -> approval review POSTs issued
    summaryPrinted,  \* the final summary was printed
    \* ---- goroutines on a shared cache (SpecConc)
    gpc,             \* goroutine -> position inside GetOrFetch
    gidx,            \* goroutine -> PR number it is working on
    gresp,           \* goroutine -> the response its Get received
    gresults,        \* goroutine -> records returned so far
    mapAccess,       \* goroutine -> "none" | "read" | "write" (inside the map)
    raced,           \* an unsynchronised overlapping map access happened
    fatal,           \* the runtime aborted the process (concurrent map access)
    \* ---- single calls of the functions without state of their own
    fnCall,          \* the call: the function and its arguments
    fnResult         \* what the call returned (and the Gets it issued)

cacheVars == <<callCount, lastCall, firstGet>>
sessVars  == <<pullRequests, config, flags, pc, processedPRs, approvedCount,
               skippedCount, heldCount, commentedCount, selected, reviewsSeen,
               override, lastPrompt, lastResult, lastPosts,
               reviewPosts, summaryPrinted>>
concVars  == <<gpc, gidx, gresp, gresults, mapAccess, raced, fatal>>
funcVars  == <<fnCall, fnResult>>
vars      == <<cache, detailsGets, cacheVars, sessVars, concVars, funcVars>>

----------------------------------------------------------------------------
(* Bounds of the model *)

\* PR numbers the cache drivers use: 1..MaxPRNumber
MaxPRNumber == 2
\* GetOrFetch calls of the sequential driver
MaxCalls == 4
\* PRs listed in one approval session: 1..MaxPRs
MaxPRs == 2
\* goroutines sharing one cache
NumGoroutines == 2

----------------------------------------------------------------------------
(* Data model: PullRequest (cmd/list.go) *)

HoldLabel == "do-not-merge/hold"

\* Body text is a sequence of symbols; "WARN" stands for the warning emoji.
BodyNone      == << >>
BodyMigration == <<"WARN", "[", "M", "i", "g", "r", "a", "t", "i", "o", "n", "]", " ", "d", "b">>
BodyBareWord  == <<"M", "i", "g", "r", "a", "t", "i", "o", "n", " ", "g", "u", "i", "d", "e">>

PR(n, title, body, state, draft, labels, ms) ==
    [Number |-> n, Title |-> title, Body |-> body, State |-> state,
     Draft |-> draft, Labels |-> labels, HeadSHA |-> "sha",
     MergeableState |-> ms]

\* mergeable_state values the details endpoint answers with
ServerStates == {"clean", "dirty"}

\* The record the details endpoint returns for PR n
FullPR(n, ms) == PR(n, "full", BodyNone, "open", FALSE, {}, ms)

\* Outcomes of client.Get on repos/o/r/pulls/{n}
ResponseKinds == {"err"} \cup ServerStates

Resp(n, k) == IF k = "err"
              THEN [err |-> TRUE, pr |-> FullPR(n, "")]
              ELSE [err |-> FALSE, pr |-> FullPR(n, k)]

Responses(n) == {Resp(n, k) : k \in ResponseKinds}

----------------------------------------------------------------------------
(* PRDetailsCache *)

NewPRDetailsCache == << >>

Cached(c, n) == n \in DOMAIN c

Store(c, n, pr) == [k \in (DOMAIN c) \cup {n} |-> IF k = n THEN pr ELSE c[k]]

\* Mutants of GetOrFetch (plausible slips in the code)
GetOrFetchNoStoreOnSuccess(c, prNumber, originalPR, resp) ==
    IF originalPR.MergeableState # ""
    THEN [pr |-> originalPR, cache |-> c, get |-> FALSE]
    ELSE IF Cached(c, prNumber)
    THEN [pr |-> c[prNumber], cache |-> c, get |-> FALSE]
    ELSE IF resp.err
    THEN [pr |-> originalPR, cache |-> Store(c, prNumber, originalPR), get |-> TRUE]
    ELSE [pr |-> resp.pr, cache |-> c, get |-> TRUE]

GetOrFetchNoStoreOnFailure(c, prNumber, originalPR, resp) ==
    IF originalPR.MergeableState # ""
    THEN [pr |-> originalPR, cache |-> c, get |-> FALSE]
    ELSE IF Cached(c, prNumber)
    THEN [pr |-> c[prNumber], cache |-> c, get |-> FALSE]
    ELSE IF resp.err
    THEN [pr |-> originalPR, cache |-> c, get |-> TRUE]
    ELSE [pr |-> resp.pr, cache |-> Store(c, prNumber, resp.pr), get |-> TRUE]

GetOrFetchCacheFirst(c, prNumber, originalPR, resp) ==
    IF Cached(c, prNumber)
    THEN [pr |-> c[prNumber], cache |-> c, get |-> FALSE]
    ELSE IF originalPR.MergeableState # ""
    THEN [pr |-> originalPR, cache |-> c, get |-> FALSE]
    ELSE IF resp.err
    THEN [pr |-> originalPR, cache |-> Store(c, prNumber, originalPR), get |-> TRUE]
    ELSE [pr |-> resp.pr, cache |-> Store(c, prNumber, resp.pr), get |-> TRUE]

\* GetOrFetch: the record returned, the cache afterwards, and whether a Get
\* was issued. resp is what client.Get answers if it is called.
GetOrFetch(c, prNumber, originalPR, resp) ==
    IF originalPR.MergeableState # ""
    THEN [pr |-> originalPR, cache |-> c, get |-> FALSE]
    ELSE IF Cached(c, prNumber)
    THEN [pr |-> c[prNumber], cache |-> c, get |-> FALSE]
    ELSE IF resp.err
    THEN [pr |-> originalPR, cache |-> Store(c, prNumber, originalPR), get |-> TRUE]
    ELSE [pr |-> resp.pr, cache |-> Store(c, prNumber, resp.pr), get |-> TRUE]

needsRebase(pr) == pr.MergeableState \in {"dirty", "behind"}

isBlocked(pr) == pr.MergeableState = "blocked"

isOnHold(pr) == HoldLabel \in pr.Labels

----------------------------------------------------------------------------
(* Idle values: what a specification gives the variables it does not use *)

NoCall == [n |-> 0, orig |-> FullPR(0, ""), result |-> FullPR(0, ""),
           get |-> FALSE, err |-> FALSE, cached |-> FALSE,
           resp |-> [err |-> TRUE, pr |-> FullPR(0, "")]]

CacheIdle ==
    /\ callCount = 0
    /\ lastCall = NoCall
    /\ firstGet = << >>

SessIdle ==
    /\ pullRequests = << >>
    /\ config = [IsKonflux |-> FALSE]
    /\ flags = [showFiles |-> FALSE, showDiff |-> FALSE,
                tektonOnly |-> FALSE, migrationOnly |-> FALSE]
    /\ pc = "idle"
    /\ processedPRs = {}
    /\ approvedCount = 0
    /\ skippedCount = 0
    /\ heldCount = 0
    /\ commentedCount = 0
    /\ selected = 0
    /\ reviewsSeen = "none"
    /\ override = "none"
    /\ lastPrompt = "none"
    /\ lastResult = "None"
    /\ lastPosts = << >>
    /\ reviewPosts = << >>
    /\ summaryPrinted = FALSE

NoFn == [fn |-> "none"]

FuncIdle ==
    /\ fnCall = NoFn
    /\ fnResult = NoFn

ConcIdle ==
    /\ gpc = << >>
    /\ gidx = << >>
    /\ gresp = << >>
    /\ gresults = << >>
    /\ mapAccess = << >>
    /\ raced = FALSE
    /\ fatal = FALSE

----------------------------------------------------------------------------
(* SpecCache: one cache, sequential GetOrFetch calls by arbitrary callers *)

PRNumbers == 1..MaxPRNumber

\* What callers pass as originalPR: list responses with and without state
CallerStates == {"", "unknown", "clean", "dirty"}
CallerTitles == {"listed", "relisted"}

OriginalPRs(n) ==
    {PR(n, t, BodyNone, "open", FALSE, {}, ms) :
        t \in CallerTitles, ms \in CallerStates}

NoGet == [status |-> "none", pr |-> FullPR(0, "")]

InitCache ==
    /\ cache = NewPRDetailsCache
    /\ detailsGets = [n \in PRNumbers |-> 0]
    /\ callCount = 0
    /\ lastCall = NoCall
    /\ firstGet = [n \in PRNumbers |-> NoGet]
    /\ SessIdle
    /\ ConcIdle
    /\ FuncIdle

\* One call c.GetOrFetch(client, owner, repo, n, orig)
CallGetOrFetch(n, orig, resp) ==
    LET r == GetOrFetch(cache, n, orig, resp) IN
    /\ callCount < MaxCalls
    /\ callCount' = callCount + 1
    /\ cache' = r.cache
    /\ detailsGets' = IF r.get
                      THEN [detailsGets EXCEPT ![n] = @ + 1]
                      ELSE detailsGets
    /\ lastCall' = [n |-> n, orig |-> orig, result |-> r.pr, get |-> r.get,
                    err |-> r.get /\ resp.err, cached |-> Cached(cache, n),
                    resp |-> resp]
    /\ firstGet' = IF r.get /\ firstGet[n].status = "none"
                   THEN [firstGet EXCEPT ![n] =
                            IF resp.err
                            THEN [status |-> "fail", pr |-> orig]
                            ELSE [status |-> "ok", pr |-> resp.pr]]
                   ELSE firstGet
    /\ UNCHANGED <<sessVars, concVars, funcVars>>

NextCache ==
    \E n \in PRNumbers : \E orig \in OriginalPRs(n) : \E resp \in Responses(n) :
        CallGetOrFetch(n, orig, resp)

SpecCache == InitCache /\ [][NextCache]_vars

----------------------------------------------------------------------------
(* Claims about the sequential cache (SpecCache) *)

\* The last call was GetOrFetch(n, orig) with orig.MergeableState = ms
LastCallWas(n, ms) == lastCall.n = n /\ lastCall.orig.MergeableState = ms

\* C1: for a PR number whose first details Get succeeded, the calls with an
\* empty MergeableState issued exactly one Get (the one of the first such
\* call, the miss), and every such call returns the fetched record.
C1_SingleFetch ==
    \A n \in PRNumbers :
        firstGet[n].status = "ok" =>
            /\ detailsGets[n] = 1
            /\ Cached(cache, n) /\ cache[n] = firstGet[n].pr
            /\ LastCallWas(n, "") =>
                /\ lastCall.result = firstGet[n].pr
                /\ lastCall.get <=> ~lastCall.cached

\* C1 witness: a third or later call for a fetched PR was served from the cache
C1_Witness ==
    \E n \in PRNumbers :
        /\ firstGet[n].status = "ok"
        /\ LastCallWas(n, "")
        /\ lastCall.cached /\ ~lastCall.get
        /\ callCount >= 3
        /\ lastCall.result # lastCall.orig

\* C2 (as claimed): a call with MergeableState "unknown" on a cache miss
\* issues the details Get and, when it succeeds, returns the fetched record.
C2_UnknownTriggersFetch ==
    (lastCall.n \in PRNumbers /\ lastCall.orig.MergeableState = "unknown"
        /\ ~lastCall.cached) =>
        /\ lastCall.get
        /\ ~lastCall.err => lastCall.result = lastCall.resp.pr

\* C3: when the first details Get of n failed, the caller's original PR is
\* stored under n and returned, and every later call with an empty state
\* returns that stored record without another Get.
C3_NegativeCaching ==
    \A n \in PRNumbers :
        firstGet[n].status = "fail" =>
            /\ detailsGets[n] = 1
            /\ Cached(cache, n) /\ cache[n] = firstGet[n].pr
            /\ LastCallWas(n, "") =>
                /\ lastCall.result = firstGet[n].pr
                /\ lastCall.get => (lastCall.err /\ lastCall.result = lastCall.orig)
                /\ lastCall.cached => ~lastCall.get

\* C3 witness: after a failed fetch a later caller, passing another copy of
\* the PR, is handed the record stored at the failure
C3_Witness ==
    \E n \in PRNumbers :
        /\ firstGet[n].status = "fail"
        /\ LastCallWas(n, "")
        /\ lastCall.cached /\ ~lastCall.get
        /\ lastCall.orig # firstGet[n].pr
        /\ lastCall.result = firstGet[n].pr

----------------------------------------------------------------------------
(* SpecConc: goroutines calling GetOrFetch on one shared PRDetailsCache,   *)
(* each for PR 1, 2, ... in turn with an empty MergeableState. The method  *)
(* takes no lock, so its map read, its Get and its map write are separate  *)
(* steps that interleave freely. A map access has a begin and an end; two  *)
(* accesses overlap when one begins while another, of another goroutine,   *)
(* has not ended. Go leaves an overlapping access with a write undefined:  *)
(* the runtime either aborts the process (fatal error: concurrent map      *)
(* writes / concurrent map read and map write) or goes on.                 *)

Goroutines == 1..NumGoroutines

ConcOriginal(n) == PR(n, "listed", BodyNone, "open", FALSE, {}, "")

InitConc ==
    /\ cache = NewPRDetailsCache
    /\ detailsGets = [n \in PRNumbers |-> 0]
    /\ gpc = [g \in Goroutines |-> "call"]
    /\ gidx = [g \in Goroutines |-> 1]
    /\ gresp = [g \in Goroutines |-> [err |-> TRUE, pr |-> FullPR(0, "")]]
    /\ gresults = [g \in Goroutines |-> {}]
    /\ mapAccess = [g \in Goroutines |-> "none"]
    /\ raced = FALSE
    /\ fatal = FALSE
    /\ CacheIdle
    /\ SessIdle
    /\ FuncIdle

\* Another goroutine is inside the map, and one of the two accesses writes
Overlaps(g, kind) ==
    \E h \in Goroutines \ {g} :
        /\ mapAccess[h] # "none"
        /\ (kind = "write" \/ mapAccess[h] = "write")

\* The goroutine's call returns pr; it goes on to its next PR number
GoReturn(g, pr) ==
    /\ gresults' = [gresults EXCEPT ![g] = @ \cup {<<gidx[g], pr>>}]
    /\ gidx' = [gidx EXCEPT ![g] = @ + 1]
    /\ gpc' = [gpc EXCEPT ![g] = IF gidx[g] < MaxPRNumber THEN "call" ELSE "done"]

\* if originalPR.MergeableState != "" { return &originalPR }
GoCall(g) ==
    /\ ~fatal /\ gpc[g] = "call"
    /\ IF ConcOriginal(gidx[g]).MergeableState # ""
       THEN GoReturn(g, ConcOriginal(gidx[g]))
       ELSE gpc' = [gpc EXCEPT ![g] = "lookup"] /\ UNCHANGED <<gidx, gresults>>
    /\ UNCHANGED <<cache, detailsGets, gresp, mapAccess, raced, fatal,
                   cacheVars, sessVars, funcVars>>

\* cachedPR, exists := c.cache[prNumber]: the read begins
GoLookupBegin(g) ==
    /\ ~fatal /\ gpc[g] = "lookup"
    /\ gpc' = [gpc EXCEPT ![g] = "lookupEnd"]
    /\ mapAccess' = [mapAccess EXCEPT ![g] = "read"]
    /\ IF Overlaps(g, "read")
       THEN raced' = TRUE /\ fatal' \in BOOLEAN
       ELSE UNCHANGED <<raced, fatal>>
    /\ UNCHANGED <<cache, detailsGets, gidx, gresp, gresults, cacheVars, sessVars, funcVars>>

\* the read ends: a hit returns the cached pointer, a miss goes on to fetch
GoLookupEnd(g) ==
    /\ ~fatal /\ gpc[g] = "lookupEnd"
    /\ mapAccess' = [mapAccess EXCEPT ![g] = "none"]
    /\ IF Cached(cache, gidx[g])
       THEN GoReturn(g, cache[gidx[g]])
       ELSE gpc' = [gpc EXCEPT ![g] = "fetch"] /\ UNCHANGED <<gidx, gresults>>
    /\ UNCHANGED <<cache, detailsGets, gresp, raced, fatal, cacheVars, sessVars, funcVars>>

\* err := client.Get(prPath, &pr)
GoFetch(g) ==
    /\ ~fatal /\ gpc[g] = "fetch"
    /\ \E resp \in Responses(gidx[g]) : gresp' = [gresp EXCEPT ![g] = resp]
    /\ detailsGets' = [detailsGets EXCEPT ![gidx[g]] = @ + 1]
    /\ gpc' = [gpc EXCEPT ![g] = "store"]
    /\ UNCHANGED <<cache, gidx, gresults, mapAccess, raced, fatal,
                   cacheVars, sessVars, funcVars>>

\* c.cache[prNumber] = ...: the write begins
GoStoreBegin(g) ==
    /\ ~fatal /\ gpc[g] = "store"
    /\ gpc' = [gpc EXCEPT ![g] = "storeEnd"]
    /\ mapAccess' = [mapAccess EXCEPT ![g] = "write"]
    /\ IF Overlaps(g, "write")
       THEN raced' = TRUE /\ fatal' \in BOOLEAN
       ELSE UNCHANGED <<raced, fatal>>
    /\ UNCHANGED <<cache, detailsGets, gidx, gresp, gresults, cacheVars, sessVars, funcVars>>

\* the write ends and the call returns what it stored
GoStoreEnd(g) ==
    LET stored == IF gresp[g].err THEN ConcOriginal(gidx[g]) ELSE gresp[g].pr IN
    /\ ~fatal /\ gpc[g] = "storeEnd"
    /\ cache' = Store(cache, gidx[g], stored)
    /\ mapAccess' = [mapAccess EXCEPT ![g] = "none"]
    /\ GoReturn(g, stored)
    /\ UNCHANGED <<detailsGets, gresp, raced, fatal, cacheVars, sessVars, funcVars>>

NextConc ==
    \E g \in Goroutines :
        \/ GoCall(g)
        \/ GoLookupBegin(g)
        \/ GoLookupEnd(g)
        \/ GoFetch(g)
        \/ GoStoreBegin(g)
        \/ GoStoreEnd(g)

SpecConc == InitConc /\ [][NextConc]_vars

\* Goroutine g is between its miss-check and the end of its store
InMissFetchStore(g) == gpc[g] \in {"lookupEnd", "fetch", "store", "storeEnd"}

\* C5 (as claimed): concurrent GetOrFetch calls are safe in every
\* interleaving: no caller's miss-check, fetch and store overlaps another
\* caller's access to the map, no unsynchronised concurrent map access
\* happens, every call returns a record with the requested number, and at
\* most one Get is issued per PR number.
C5_ConcurrentSafe ==
    /\ ~raced /\ ~fatal
    /\ \A g \in Goroutines : \A h \in Goroutines \ {g} :
           InMissFetchStore(g) => mapAccess[h] = "none"
    /\ \A g \in Goroutines : \A r \in gresults[g] : r[2].Number = r[1]
    /\ \A n \in PRNumbers : detailsGets[n] <= 1

----------------------------------------------------------------------------
(* Text helpers of the session: what the strings functions do on the      *)
(* lines the model types.                                                  *)

\* strings.TrimSpace
TrimSpace(s) ==
    CASE s = " y " -> "y"
      [] s = " "   -> ""
      [] OTHER     -> s

\* strings.ToLower
ToLower(s) ==
    CASE s = "Y"    -> "y"
      [] s = "YES"  -> "yes"
      [] s = "Q"    -> "q"
      [] s = "Quit" -> "quit"
      [] s = "F"    -> "f"
      [] s = " Y "  -> " y "
      [] OTHER      -> s

\* strings.TrimPrefix(input, "#")
TrimHash(s) ==
    CASE s = "#1" -> "1"
      [] s = "#x" -> "x"
      [] OTHER    -> s

\* strconv.Atoi on the lines the model types: 0 stands for an error
Atoi(s) == IF \E k \in 1..(MaxPRs + 1) : ToString(k) = s
           THEN CHOOSE k \in 1..(MaxPRs + 1) : ToString(k) = s
           ELSE 0

\* strings.ToLower on a body symbol
UpperSyms == <<"M", "W", "I", "G", "R", "A", "T", "O", "N">>
LowerSyms == <<"m", "w", "i", "g", "r", "a", "t", "o", "n">>
LowerSym(ch) == IF \E i \in 1..Len(UpperSyms) : UpperSyms[i] = ch
                THEN LowerSyms[CHOOSE i \in 1..Len(UpperSyms) : UpperSyms[i] = ch]
                ELSE ch
LowerBody(b) == [i \in 1..Len(b) |-> LowerSym(b[i])]

\* strings.Contains
Contains(b, pat) ==
    \E i \in 0..(Len(b) - Len(pat)) :
        \A j \in 1..Len(pat) : b[i + j] = pat[j]

migrationPatterns ==
    << <<"WARN", "[", "m", "i", "g", "r", "a", "t", "i", "o", "n", "]">>,
       <<":", "w", "a", "r", "n", "i", "n", "g", ":", "[", "m", "i", "g", "r", "a", "t", "i", "o", "n", "]">>,
       <<"WARN", "m", "i", "g", "r", "a", "t", "i", "o", "n", "WARN">>,
       <<"[", "m", "i", "g", "r", "a", "t", "i", "o", "n", "]">> >>

\* hasMigrationWarning matching the body as written, without strings.ToLower
hasMigrationWarningCaseSensitive(pr) ==
    \E k \in 1..Len(migrationPatterns) :
        Contains(pr.Body, LowerBody(migrationPatterns[k]))

hasMigrationWarning(pr) ==
    \E k \in 1..Len(migrationPatterns) :
        Contains(LowerBody(pr.Body), LowerBody(migrationPatterns[k]))

----------------------------------------------------------------------------
(* The approval session: approvePRsWithConfig and what it calls *)

SessNumbers == 1..MaxPRs

\* The kinds of PR a list response holds
Profiles ==
    << [body |-> BodyNone,      state |-> "open",   draft |-> FALSE, labels |-> {HoldLabel}, ms |-> ""],
       [body |-> BodyBareWord,  state |-> "open",   draft |-> FALSE, labels |-> {},          ms |-> ""],
       [body |-> BodyMigration, state |-> "open",   draft |-> FALSE, labels |-> {"lgtm"},    ms |-> "clean"],
       [body |-> BodyNone,      state |-> "open",   draft |-> TRUE,  labels |-> {},          ms |-> "clean"],
       [body |-> BodyNone,      state |-> "closed", draft |-> FALSE, labels |-> {},          ms |-> "dirty"] >>

ListedPR(n, p) == PR(n, "listed", p.body, p.state, p.draft, p.labels, p.ms)

\* The lists handed to approvePRsWithConfig: 1..MaxPRs PRs, numbered 1, 2, ...,
\* their kinds in the order of Profiles
PRLists ==
    UNION { { [i \in 1..len |-> ListedPR(i, Profiles[f[i]])] :
                f \in {g \in [1..len -> 1..Len(Profiles)] :
                          \A i \in 1..(len - 1) : g[i] <= g[i + 1]} } :
            len \in 1..MaxPRs }

\* The command lines the model runs: list --approve, konflux --approve, and
\* the flags that change what the session fetches
Setups ==
    { [konflux |-> FALSE, showFiles |-> FALSE, showDiff |-> FALSE, tektonOnly |-> FALSE, migrationOnly |-> FALSE],
      [konflux |-> TRUE,  showFiles |-> TRUE,  showDiff |-> TRUE,  tektonOnly |-> TRUE,  migrationOnly |-> FALSE] }

Init ==
    /\ pullRequests \in PRLists
    /\ \E su \in Setups :
        /\ config = [IsKonflux |-> su.konflux]
        /\ flags = [showFiles |-> su.showFiles, showDiff |-> su.showDiff,
                    tektonOnly |-> su.tektonOnly, migrationOnly |-> su.migrationOnly]
    /\ pc = "start"
    /\ cache = NewPRDetailsCache
    /\ detailsGets = [n \in SessNumbers |-> 0]
    /\ processedPRs = {}
    /\ approvedCount = 0
    /\ skippedCount = 0
    /\ heldCount = 0
    /\ commentedCount = 0
    /\ selected = 0
    /\ reviewsSeen = "none"
    /\ override = "none"
    /\ lastPrompt = "none"
    /\ lastResult = "None"
    /\ lastPosts = << >>
    /\ reviewPosts = [n \in SessNumbers |-> 0]
    /\ summaryPrinted = FALSE
    /\ CacheIdle
    /\ ConcIdle
    /\ FuncIdle

\* The eligibility test without the test of pr.State
ApprovableAnyState(pr) == ~pr.Draft /\ ~isOnHold(pr)

Approvable(pr) == pr.State = "open" /\ ~pr.Draft /\ ~isOnHold(pr)

\* The filter of the session loop letting processed PRs through
NotProcessedAlways(processed, pr) == TRUE

NotProcessed(processed, pr) == pr.Number \notin processed

\* displayPRs and approvablePRs of one pass of the session loop
DisplayPRs(processed) ==
    SelectSeq(pullRequests, LAMBDA pr : NotProcessed(processed, pr))

\* approvablePRs filled from all the listed PRs, the processed ones included
ApprovablePRsWithProcessed(processed) == SelectSeq(pullRequests, Approvable)

ApprovablePRs(processed) == SelectSeq(DisplayPRs(processed), Approvable)

PRByNumber(n) ==
    pullRequests[CHOOSE i \in 1..Len(pullRequests) : pullRequests[i].Number = n]

RespFor(resp, n) == IF n \in DOMAIN resp THEN Resp(n, resp[n]) ELSE Resp(n, "err")

\* The two cache lookups of a table row or a detail view:
\* needsRebaseWithCache, then isBlockedWithCache
TwoLookups(c, pr, r) ==
    LET r1 == GetOrFetch(c, pr.Number, pr, r)
        r2 == GetOrFetch(r1.cache, pr.Number, pr, r)
    IN [cache |-> r2.cache,
        gets  |-> (IF r1.get THEN 1 ELSE 0) + (IF r2.get THEN 1 ELSE 0)]

\* What the details endpoint answers during a session
SessResponseKinds == {"err", "dirty"}

\* A row that looks the PR up in the cache whether it is on hold or not
TableRowLooksUpHeld(pr, st, resp, tk) ==
    LET n == pr.Number
        onlyTektonFiles == config.IsKonflux /\ n \in DOMAIN tk /\ tk[n]
        hasMigration == config.IsKonflux /\ hasMigrationWarning(pr)
        look == TwoLookups(st.cache, pr, RespFor(resp, n))
    IN IF (flags.tektonOnly /\ ~onlyTektonFiles) \/ (flags.migrationOnly /\ ~hasMigration)
       THEN st
       ELSE [cache |-> look.cache,
             dgets |-> [st.dgets EXCEPT ![n] = @ + look.gets]]

\* One row of displayPRTable: the rows --tekton-only and --migration-only
\* skip are left before any cache lookup; a PR on hold is never looked up
TableRow(pr, st, resp, tk) ==
    LET n == pr.Number
        onlyTektonFiles == config.IsKonflux /\ n \in DOMAIN tk /\ tk[n]
        hasMigration == config.IsKonflux /\ hasMigrationWarning(pr)
        look == IF isOnHold(pr)
                THEN [cache |-> st.cache, gets |-> 0]
                ELSE TwoLookups(st.cache, pr, RespFor(resp, n))
    IN IF (flags.tektonOnly /\ ~onlyTektonFiles) \/ (flags.migrationOnly /\ ~hasMigration)
       THEN st
       ELSE [cache |-> look.cache,
             dgets |-> [st.dgets EXCEPT ![n] = @ + look.gets]]

RECURSIVE TableRows(_, _, _, _, _)
TableRows(prs, i, st, resp, tk) ==
    IF i > Len(prs) THEN st
    ELSE TableRows(prs, i + 1, TableRow(prs[i], st, resp, tk), resp, tk)

\* displayPRTable(displayPRs, ..., cache): the cache and the details Gets after it
displayPRTable(prs, c, dgets, resp, tk) ==
    TableRows(prs, 1, [cache |-> c, dgets |-> dgets], resp, tk)

\* PR numbers whose details a step may have to fetch
NeedFetch(prs, c) ==
    {prs[i].Number : i \in {j \in 1..Len(prs) :
        prs[j].MergeableState = "" /\ ~Cached(c, prs[j].Number) /\ ~isOnHold(prs[j])}}

\* What the Tekton check of each row answers (it decides only under --tekton-only)
TektonAnswers(prs, c) ==
    IF config.IsKonflux /\ flags.tektonOnly
    THEN [NeedFetch(prs, c) -> BOOLEAN]
    ELSE {<< >>}

\* exitLoop: the final summary
PrintSummary ==
    /\ pc' = "done"
    /\ summaryPrinted' = TRUE

\* One pass of the session loop up to its prompt, with `processed` the
\* processed set: filter, table, and either the selection prompt or the end.
LoopTop(processed) ==
    LET disp == DisplayPRs(processed)
        appr == ApprovablePRs(processed)
    IN IF Len(disp) = 0
       THEN /\ PrintSummary
            /\ UNCHANGED <<cache, detailsGets>>
       ELSE \E resp \in [NeedFetch(disp, cache) -> SessResponseKinds] :
            \E tk \in TektonAnswers(disp, cache) :
              LET t == displayPRTable(disp, cache, detailsGets, resp, tk) IN
              /\ cache' = t.cache
              /\ detailsGets' = t.dgets
              /\ IF Len(appr) = 0
                 THEN PrintSummary
                 ELSE pc' = "select" /\ UNCHANGED summaryPrinted

----------------------------------------------------------------------------
(* Standard input: what a ReadString('\n') returns *)

Line(t) == [kind |-> "line", text |-> t]
EOF     == [kind |-> "eof", text |-> ""]
ReadErr == [kind |-> "err", text |-> ""]

NumberLines == {ToString(k) : k \in 1..(MaxPRs + 1)}

SelectInputs   == {EOF, ReadErr} \cup {Line(t) : t \in {"", "q", "Quit", "abc", "#1"} \cup NumberLines}
ContinueInputs == {EOF, ReadErr} \cup {Line(t) : t \in {"y", "Y", "yes", "n", ""}}
DecisionInputs == {EOF, ReadErr} \cup
    {Line(t) : t \in {"y", "YES", "q", "quit", "h", "hold", "m", "comment", "f", "files",
                      "d", "diff", "c", "checks", "", "n", "no", "x"}}
HoldInputs     == {EOF, ReadErr} \cup {Line(t) : t \in {"", "why"}}
CommentInputs  == {EOF, ReadErr} \cup {Line(t) : t \in {"", " ", "text"}}
ConfirmInputs  == {EOF, ReadErr} \cup {Line(t) : t \in {"y", "yes", " Y ", "n", "", "ok"}}

----------------------------------------------------------------------------
(* POSTs *)

ReviewPost(n, ok)        == [kind |-> "review",  pr |-> n, body |-> <<"APPROVE", "/lgtm">>, ok |-> ok]
CommentPost(n, body, ok) == [kind |-> "comment", pr |-> n, body |-> body, ok |-> ok]
LabelPost(n, ok)         == [kind |-> "label",   pr |-> n, body |-> <<"needs-ok-to-test">>, ok |-> ok]

ReviewsIn(posts, n) ==
    Cardinality({i \in 1..Len(posts) : posts[i].kind = "review" /\ posts[i].pr = n})

\* Mutant: the label POST is issued whatever became of the comment POST
holdPRLabelAnyway(n, additionalComment, ok1, ok2) ==
    LET commentBody == IF additionalComment # ""
                       THEN <<"/hold", additionalComment>>
                       ELSE <<"/hold">>
    IN [posts |-> <<CommentPost(n, commentBody, ok1), LabelPost(n, ok2)>>,
        err |-> ~ok1 \/ ~ok2]

\* holdPR: the POSTs it issues for the outcomes ok1, ok2 of its two POSTs
holdPR(n, additionalComment, ok1, ok2) ==
    LET commentBody == IF additionalComment # ""
                       THEN <<"/hold", additionalComment>>
                       ELSE <<"/hold">>
    IN IF ~ok1
       THEN [posts |-> <<CommentPost(n, commentBody, FALSE)>>, err |-> TRUE]
       ELSE [posts |-> <<CommentPost(n, commentBody, TRUE), LabelPost(n, ok2)>>,
             err |-> ~ok2]

\* addCommentToPR
addCommentToPR(n, commentText, ok) ==
    [posts |-> <<CommentPost(n, <<commentText>>, ok)>>, err |-> ~ok]

----------------------------------------------------------------------------
(* Decisions of the prompts *)

\* Mutant: the override prompt takes a read error or an empty line as consent
ContinueAcceptedLax(inp) ==
    inp.kind # "line" \/ ToLower(TrimSpace(inp.text)) \in {"y", ""}

\* approveSinglePRWithCache: the answer to "continue anyway?" that goes on
ContinueAccepted(inp) ==
    inp.kind = "line" /\ ToLower(TrimSpace(inp.text)) = "y"

\* Mutant: the confirmation declines only on an explicit n
ConfirmAcceptedLax(inp) ==
    inp.kind = "line" /\ TrimSpace(ToLower(inp.text)) # "n"

\* approveSinglePRWithCache: the answer to the migration confirmation that approves
ConfirmAccepted(inp) ==
    inp.kind = "line" /\ TrimSpace(ToLower(inp.text)) \in {"y", "yes"}

\* Mutant: no confirmation is asked for
NeedsConfirmationNever(pr) == FALSE

\* approveSinglePRWithCache: approving this PR needs the extra confirmation
NeedsConfirmation(pr) == hasMigrationWarning(pr)

\* Mutant: the already-approved check is skipped
AlreadyApprovedNever(rv) == FALSE

\* approveSinglePRWithCache: the reviews fetch found an APPROVED review
AlreadyApproved(rv) == rv = "approved"

\* Mutant: a failed POST is still counted as an approval
ReviewPostResultAlwaysApprove(ok) == "Approve"

\* approveSinglePRWithCache: the result after the review POST
ReviewPostResult(ok) == IF ok THEN "Approve" ELSE "Skip"

\* Mutant: q only skips the PR
DecisionOfQuitSkips(response) ==
    CASE response \in {"y", "yes"}               -> "approve"
      [] response \in {"h", "hold"}              -> "hold"
      [] response \in {"m", "comment"}           -> "comment"
      [] response \in {"f", "files"}             -> "files"
      [] response \in {"d", "diff"}              -> "diff"
      [] response \in {"c", "checks"}            -> "checks"
      [] response \in {"", "n", "no", "q", "quit"} -> "skip"
      [] OTHER                                   -> "invalid"

\* Mutant: f is taken as yes
DecisionOfFilesApproves(response) ==
    CASE response \in {"y", "yes", "f"} -> "approve"
      [] response \in {"q", "quit"}     -> "quit"
      [] response \in {"h", "hold"}     -> "hold"
      [] response \in {"m", "comment"}  -> "comment"
      [] response \in {"files"}         -> "files"
      [] response \in {"d", "diff"}     -> "diff"
      [] response \in {"c", "checks"}   -> "checks"
      [] response \in {"", "n", "no"}   -> "skip"
      [] OTHER                          -> "invalid"

\* promptForApprovalWithCache: the switch on the lower-cased, trimmed response
DecisionOf(response) ==
    CASE response \in {"y", "yes"}      -> "approve"
      [] response \in {"q", "quit"}     -> "quit"
      [] response \in {"h", "hold"}     -> "hold"
      [] response \in {"m", "comment"}  -> "comment"
      [] response \in {"f", "files"}    -> "files"
      [] response \in {"d", "diff"}     -> "diff"
      [] response \in {"c", "checks"}   -> "checks"
      [] response \in {"", "n", "no"}   -> "skip"
      [] OTHER                          -> "invalid"

----------------------------------------------------------------------------
(* Pieces of the session's steps *)

counters == <<approvedCount, skippedCount, heldCount, commentedCount>>

\* A step read a line at the prompt the session was blocked on
Read ==
    /\ lastPrompt' = pc
    /\ UNCHANGED <<pullRequests, config, flags>>

\* The end of a round that counts no skipped PR
RoundEndSkipUncounted(result, posts) ==
    /\ processedPRs' = processedPRs \cup {selected}
    /\ approvedCount'  = approvedCount  + (IF result = "Approve" THEN 1 ELSE 0)
    /\ skippedCount'   = skippedCount
    /\ heldCount'      = heldCount      + (IF result = "Hold" THEN 1 ELSE 0)
    /\ commentedCount' = commentedCount + (IF result = "Comment" THEN 1 ELSE 0)
    /\ lastResult' = result
    /\ lastPosts' = posts
    /\ reviewPosts' = [reviewPosts EXCEPT ![selected] = @ + ReviewsIn(posts, selected)]
    /\ reviewsSeen' = "none"
    /\ UNCHANGED selected
    /\ IF result = "Quit"
       THEN PrintSummary /\ UNCHANGED <<cache, detailsGets>>
       ELSE LoopTop(processedPRs \cup {selected})

\* approvePRsWithConfig after approveSinglePRWithCache returned `result`:
\* mark the PR processed, count, and go on (or leave the loop on Quit)
RoundEnd(result, posts) ==
    /\ processedPRs' = processedPRs \cup {selected}
    /\ approvedCount'  = approvedCount  + (IF result = "Approve" THEN 1 ELSE 0)
    /\ skippedCount'   = skippedCount   + (IF result = "Skip" THEN 1 ELSE 0)
    /\ heldCount'      = heldCount      + (IF result = "Hold" THEN 1 ELSE 0)
    /\ commentedCount' = commentedCount + (IF result = "Comment" THEN 1 ELSE 0)
    /\ lastResult' = result
    /\ lastPosts' = posts
    /\ reviewPosts' = [reviewPosts EXCEPT ![selected] = @ + ReviewsIn(posts, selected)]
    /\ reviewsSeen' = "none"
    /\ UNCHANGED selected
    /\ IF result = "Quit"
       THEN PrintSummary /\ UNCHANGED <<cache, detailsGets>>
       ELSE LoopTop(processedPRs \cup {selected})

\* promptForApprovalWithCache up to its first prompt: the detail view of pr
DetailView(pr) ==
    \E resp \in [NeedFetch(<<pr>>, cache) -> SessResponseKinds] :
        LET look == TwoLookups(cache, pr, RespFor(resp, pr.Number)) IN
        /\ cache' = look.cache
        /\ detailsGets' = [detailsGets EXCEPT ![pr.Number] = @ + look.gets]
        /\ pc' = "decision"
        /\ UNCHANGED summaryPrinted

\* The step stays inside the round: nothing of the session's tallies changes
StayInRound(nextpc, posts) ==
    /\ pc' = nextpc
    /\ lastPosts' = posts
    /\ UNCHANGED <<processedPRs, counters, selected, reviewsSeen, override,
                   lastResult, reviewPosts, summaryPrinted, cache, detailsGets>>

\* The review POST of approveSinglePRWithCache and what follows
ApproveNow ==
    \E ok \in BOOLEAN :
        /\ RoundEnd(ReviewPostResult(ok), <<ReviewPost(selected, ok)>>)
        /\ UNCHANGED override

Skip ==
    /\ RoundEnd("Skip", << >>)
    /\ UNCHANGED override

----------------------------------------------------------------------------
(* The session's steps: one per blocking read *)

\* approvePRsWithConfig is entered: first pass of the loop
StartSession ==
    /\ pc = "start"
    /\ LoopTop({})
    /\ UNCHANGED <<pullRequests, config, flags, processedPRs, counters, selected,
                   reviewsSeen, override, lastPrompt, lastResult,
                   lastPosts, reviewPosts>>
    /\ UNCHANGED <<cacheVars, concVars, funcVars>>

\* approveSinglePRWithCache up to its first prompt: the reviews Get, then
\* the continue-anyway question or the detail view
BeginRound(pr) ==
    /\ selected' = pr.Number
    /\ lastResult' = "None"
    /\ lastPosts' = << >>
    /\ UNCHANGED <<processedPRs, counters, reviewPosts>>
    /\ \E rv \in {"error", "approved", "clean"} :
        /\ reviewsSeen' = (IF rv = "approved" THEN "approved" ELSE "other")
        /\ IF AlreadyApproved(rv)
           THEN /\ override' = "asked"
                /\ pc' = "continueAnyway"
                /\ UNCHANGED <<cache, detailsGets, summaryPrinted>>
           ELSE /\ override' = "none"
                /\ DetailView(pr)

\* The selection prompt was left or its input rejected: no round is open
NoRound ==
    /\ selected' = 0
    /\ reviewsSeen' = "none"
    /\ override' = "none"
    /\ lastResult' = "None"
    /\ lastPosts' = << >>
    /\ UNCHANGED <<processedPRs, counters, reviewPosts>>

\* "PR to approve: "
SelectInput(inp) ==
    LET input == TrimSpace(inp.text)
        appr == ApprovablePRs(processedPRs)
        prNumber == Atoi(TrimHash(input))
    IN
    /\ pc = "select"
    /\ IF inp.kind # "line" \/ ToLower(input) \in {"q", "quit"}
       THEN PrintSummary /\ UNCHANGED <<cache, detailsGets>> /\ NoRound
       ELSE IF input = ""
       THEN BeginRound(appr[1])
       ELSE IF prNumber = 0
       THEN LoopTop(processedPRs) /\ NoRound
       ELSE IF ~\E i \in 1..Len(appr) : appr[i].Number = prNumber
       THEN LoopTop(processedPRs) /\ NoRound
       ELSE BeginRound(PRByNumber(prNumber))
    /\ Read
    /\ UNCHANGED <<cacheVars, concVars, funcVars>>

\* "Do you want to continue anyway? [y/N]: "
ContinueAnywayInput(inp) ==
    /\ pc = "continueAnyway"
    /\ IF ContinueAccepted(inp)
       THEN /\ override' = "accepted"
            /\ DetailView(PRByNumber(selected))
            /\ lastPosts' = << >>
            /\ UNCHANGED <<processedPRs, counters, selected, reviewsSeen,
                           lastResult, reviewPosts>>
       ELSE /\ override' = "declined"
            /\ RoundEnd("Skip", << >>)
    /\ Read
    /\ UNCHANGED <<cacheVars, concVars, funcVars>>

\* "Approve this PR? [y/N/q/h/m/...]: "
DecisionInput(inp) ==
    LET pr == PRByNumber(selected)
        d == DecisionOf(TrimSpace(ToLower(inp.text)))
    IN
    /\ pc = "decision"
    /\ IF inp.kind = "eof"
       THEN StayInRound("exited", << >>)
       ELSE IF inp.kind = "err"
       THEN Skip
       ELSE CASE d = "approve" -> IF NeedsConfirmation(pr)
                                  THEN StayInRound("migrationConfirm", << >>)
                                  ELSE ApproveNow
              [] d = "quit"    -> RoundEnd("Quit", << >>) /\ UNCHANGED override
              [] d = "hold"    -> StayInRound("holdComment", << >>)
              [] d = "comment" -> StayInRound("commentText", << >>)
              [] d = "skip"    -> Skip
              [] OTHER         -> StayInRound("decision", << >>)
    /\ Read
    /\ UNCHANGED <<cacheVars, concVars, funcVars>>

\* "Enter an optional comment to add with /hold ...: "
HoldCommentInput(inp) ==
    LET additionalComment == IF inp.kind # "line" THEN "" ELSE TrimSpace(inp.text) IN
    /\ pc = "holdComment"
    /\ \E ok1 \in BOOLEAN : \E ok2 \in BOOLEAN :
        LET h == holdPR(selected, additionalComment, ok1, ok2) IN
        IF h.err
        THEN StayInRound("decision", h.posts)
        ELSE RoundEnd("Hold", h.posts) /\ UNCHANGED override
    /\ Read
    /\ UNCHANGED <<cacheVars, concVars, funcVars>>

\* "Enter your comment: "
CommentTextInput(inp) ==
    LET commentText == TrimSpace(inp.text) IN
    /\ pc = "commentText"
    /\ IF inp.kind # "line" \/ commentText = ""
       THEN StayInRound("decision", << >>)
       ELSE \E ok \in BOOLEAN :
            LET a == addCommentToPR(selected, commentText, ok) IN
            IF a.err
            THEN StayInRound("decision", a.posts)
            ELSE RoundEnd("Comment", a.posts) /\ UNCHANGED override
    /\ Read
    /\ UNCHANGED <<cacheVars, concVars, funcVars>>

\* "Are you sure you want to approve this PR with migration warnings? [y/N]: "
MigrationConfirmInput(inp) ==
    /\ pc = "migrationConfirm"
    /\ IF ConfirmAccepted(inp) THEN ApproveNow ELSE Skip
    /\ Read
    /\ UNCHANGED <<cacheVars, concVars, funcVars>>

Next ==
    \/ StartSession
    \/ \E inp \in SelectInputs   : SelectInput(inp)
    \/ \E inp \in ContinueInputs : ContinueAnywayInput(inp)
    \/ \E inp \in DecisionInputs : DecisionInput(inp)
    \/ \E inp \in HoldInputs     : HoldCommentInput(inp)
    \/ \E inp \in CommentInputs  : CommentTextInput(inp)
    \/ \E inp \in ConfirmInputs  : MigrationConfirmInput(inp)

Spec == Init /\ [][Next]_vars

----------------------------------------------------------------------------
(* Claims about the approval session, checked under Spec *)

\* The lines the confirmation sub-prompt takes for y or yes
AffirmativeLines == {Line("y"), Line("yes"), Line(" Y ")}

\* The lines the continue-anyway question takes for an explicit y
OverrideLines == {Line("y"), Line("Y")}

\* The lines of the decision prompt that only show something, and a line
\* the prompt does not know
ViewLines == {Line(t) : t \in {"f", "files", "d", "diff", "c", "checks", "x"}}

\* The session's tallies and its processed set
tallies == <<processedPRs, approvedCount, skippedCount, heldCount, commentedCount>>

\* C6: for a PR whose body carries a migration warning, a step issues an
\* approval review POST only if it is the answer y or yes at the extra
\* confirmation sub-prompt (which is reached after choosing approve); every
\* other answer there, and a read error, resolves the PR to Skip with no POST.
C6_MigrationConfirmation ==
    [][ /\ \A inp \in ConfirmInputs \ AffirmativeLines :
              MigrationConfirmInput(inp) =>
                  /\ lastResult' = "Skip"
                  /\ skippedCount' = skippedCount + 1
                  /\ lastPosts' = << >>
                  /\ reviewPosts' = reviewPosts
        /\ \A n \in 1..Len(pullRequests) :
              (reviewPosts'[n] # reviewPosts[n] /\ hasMigrationWarning(PRByNumber(n))) =>
                  /\ pc = "migrationConfirm"
                  /\ selected = n
                  /\ \E inp \in AffirmativeLines : MigrationConfirmInput(inp)
        /\ \A n \in 1..Len(pullRequests) :
              (pc' = "migrationConfirm" /\ selected' = n /\ hasMigrationWarning(PRByNumber(n))) =>
                  /\ pc = "decision"
                  /\ \E inp \in {Line("y"), Line("YES")} : DecisionInput(inp)
      ]_vars

\* C6 witness: two PRs with a migration warning went through the confirmation
\* sub-prompt; one was approved after a yes, the other was just declined and
\* resolved to Skip with no POST.
C6_Witness ==
    /\ lastPrompt = "migrationConfirm"
    /\ lastResult = "Skip"
    /\ lastPosts = << >>
    /\ \E a \in processedPRs : \E b \in processedPRs :
        /\ a # b
        /\ b = selected
        /\ hasMigrationWarning(PRByNumber(a))
        /\ hasMigrationWarning(PRByNumber(b))
        /\ reviewPosts[a] = 1
        /\ reviewPosts[b] = 0

\* C7: when the round's reviews fetch holds an APPROVED review, the
\* continue-anyway question is asked before the decision prompt; unless the
\* answer is an explicit y the round ends with Skip, with no decision prompt
\* and no POST; the decision prompt and a POST happen only after the override
\* was accepted, and the PR is skipped only after the question was answered.
C7_AlreadyApprovedOverride ==
    [][ /\ (reviewsSeen # "approved" /\ reviewsSeen' = "approved") =>
              /\ pc' = "continueAnyway"
              /\ override' = "asked"
              /\ lastPosts' = << >>
              /\ reviewPosts' = reviewPosts
              /\ tallies' = tallies
        /\ \A inp \in ContinueInputs \ OverrideLines :
              ContinueAnywayInput(inp) =>
                  /\ lastResult' = "Skip"
                  /\ skippedCount' = skippedCount + 1
                  /\ pc' # "decision"
                  /\ lastPosts' = << >>
                  /\ reviewPosts' = reviewPosts
        /\ (reviewsSeen = "approved" /\ (pc' = "decision" \/ lastPosts' # << >>)) =>
              override' = "accepted"
        /\ (reviewsSeen = "approved" /\ processedPRs' # processedPRs) =>
              override' \in {"accepted", "declined"}
      ]_vars

\* C7 witness: an already-approved PR was selected, the question was asked
\* and not accepted, and the round ended with Skip and no POST.
C7_Witness ==
    /\ lastPrompt = "continueAnyway"
    /\ override = "declined"
    /\ lastResult = "Skip"
    /\ lastPosts = << >>
    /\ selected \in processedPRs
    /\ reviewPosts[selected] = 0

\* C8: a step whose approval review POST fails issues that one POST only,
\* leaves the Approved counter as it was, marks the PR processed, and goes on
\* with the selection prompt whenever a PR is left to approve (the summary is
\* printed only when none is); no PR ever gets a second review POST.
C8_FailedApprovePost ==
    [][ /\ (reviewPosts' # reviewPosts /\ ~lastPosts'[1].ok) =>
              /\ lastPosts' = <<ReviewPost(selected, FALSE)>>
              /\ reviewPosts' = [reviewPosts EXCEPT ![selected] = 1]
              /\ approvedCount' = approvedCount
              /\ processedPRs' = processedPRs \cup {selected}
              /\ pc' \in {"select", "done"}
              /\ (pc' = "select") <=> (Len(ApprovablePRs(processedPRs')) > 0)
        /\ \A n \in 1..Len(pullRequests) : reviewPosts'[n] <= 1
      ]_vars

\* C8 witness: the review POST of a PR failed, nothing was counted as
\* approved, and the session is back at the selection prompt for the rest.
C8_Witness ==
    /\ pc = "select"
    /\ selected \in processedPRs
    /\ lastPosts = <<ReviewPost(selected, FALSE)>>
    /\ reviewPosts[selected] = 1
    /\ approvedCount = 0
    /\ Len(ApprovablePRs(processedPRs)) > 0

\* C9: every way the approval session ends has printed the final summary.
C9_SummaryAlwaysPrinted ==
    pc \in {"done", "exited"} => summaryPrinted

\* C10: at the decision prompt the lines f, files, d, diff, c, checks and an
\* unknown line produce no ApprovalResult: the same PR is prompted again, no
\* tally moves, and no review, comment or label POST is issued.
C10_ViewCommandsReprompt ==
    [][ \A inp \in ViewLines :
            DecisionInput(inp) =>
                /\ pc' = "decision"
                /\ selected' = selected
                /\ lastResult' = "None"
                /\ tallies' = tallies
                /\ lastPosts' = << >>
                /\ reviewPosts' = reviewPosts
                /\ ~summaryPrinted'
      ]_vars

\* C10 witness: the last line read at the decision prompt left the session
\* at the decision prompt of the same PR, with no result and no POST.
C10_Witness ==
    /\ pc = "decision"
    /\ lastPrompt = "decision"
    /\ selected \notin processedPRs
    /\ lastResult = "None"
    /\ lastPosts = << >>

\* C11: the step that reads q or quit at the selection prompt or at a PR's
\* decision prompt ends the session: the summary is printed, the step issues
\* no POST and tallies no PR, and once the session is over no further step
\* happens, so no prompt is shown, no POST is issued and no PR is processed.
C11_QuitEndsSession ==
    [][ /\ \A inp \in {Line("q"), Line("Quit")} :
              SelectInput(inp) =>
                  /\ pc' = "done"
                  /\ summaryPrinted'
                  /\ lastPosts' = << >>
                  /\ reviewPosts' = reviewPosts
                  /\ tallies' = tallies
        /\ \A inp \in {Line("q"), Line("quit")} :
              DecisionInput(inp) =>
                  /\ pc' = "done"
                  /\ summaryPrinted'
                  /\ lastResult' = "Quit"
                  /\ lastPosts' = << >>
                  /\ reviewPosts' = reviewPosts
                  /\ counters' = counters
                  /\ processedPRs' = processedPRs \cup {selected}
        /\ pc # "done"
      ]_vars

\* C11 witness: the user quit at a decision prompt while another PR was
\* still to approve; that PR has no review POST.
C11_Witness ==
    /\ pc = "done"
    /\ lastPrompt = "decision"
    /\ lastResult = "Quit"
    /\ \E i \in 1..Len(ApprovablePRs(processedPRs)) :
           reviewPosts[ApprovablePRs(processedPRs)[i].Number] = 0

\* C12: the step that reads the hold comment issues the /hold comment POST
\* first, with the free text appended when there is one, and the
\* needs-ok-to-test label POST second, the label only when the comment POST
\* succeeded; the round ends as Hold and is counted as held only when both
\* succeeded, otherwise the same PR is at its decision prompt again and
\* nothing is counted.
C12_HoldPostsInOrder ==
    [][ /\ \A inp \in HoldInputs :
              HoldCommentInput(inp) =>
                  /\ Len(lastPosts') \in {1, 2}
                  /\ lastPosts'[1].kind = "comment"
                  /\ lastPosts'[1].pr = selected
                  /\ lastPosts'[1].body = (IF inp = Line("why")
                                           THEN <<"/hold", "why">>
                                           ELSE <<"/hold">>)
                  /\ (Len(lastPosts') = 2) <=> lastPosts'[1].ok
                  /\ Len(lastPosts') = 2 =>
                        /\ lastPosts'[2].kind = "label"
                        /\ lastPosts'[2].pr = selected
                        /\ lastPosts'[2].body = <<"needs-ok-to-test">>
                  /\ IF Len(lastPosts') = 2 /\ lastPosts'[2].ok
                     THEN /\ lastResult' = "Hold"
                          /\ heldCount' = heldCount + 1
                          /\ processedPRs' = processedPRs \cup {selected}
                     ELSE /\ pc' = "decision"
                          /\ selected' = selected
                          /\ lastResult' = "None"
                          /\ tallies' = tallies
        /\ heldCount' # heldCount => pc = "holdComment"
      ]_vars

\* C12 witness: a hold with free text went through: comment first, label
\* second, both accepted, and the PR is counted as held.
C12_Witness ==
    /\ lastPrompt = "holdComment"
    /\ lastResult = "Hold"
    /\ heldCount = 1
    /\ lastPosts = <<CommentPost(selected, <<"/hold", "why">>, TRUE), LabelPost(selected, TRUE)>>

----------------------------------------------------------------------------
(* Sorting: sortPullRequests, sortPullRequestsWithContext and the sort     *)
(* block of listPullRequests (SpecSort).                                   *)
(* A timestamp is a string of digits, modelled as a sequence of digits; Go *)
(* compares the strings byte by byte. sort.Slice is not stable: it may     *)
(* return any arrangement in which no element is less than one before it.  *)

\* Longest list handed to a sort
MaxSortLen == 3

\* a < b on strings
StrLess(a, b) ==
    \E i \in 1..(Len(b)) :
        /\ \A j \in 1..(i - 1) : j <= Len(a) /\ a[j] = b[j]
        /\ (i > Len(a) \/ (i <= Len(a) /\ a[i] < b[i]))

Stamp1  == <<1>>
Stamp10 == <<1, 0>>
Stamp2  == <<2>>

SortPR(n, title, body, created, updated) ==
    [Number |-> n, Title |-> title, Body |-> body,
     CreatedAt |-> created, UpdatedAt |-> updated]

\* The kinds of PR in a list to sort: body, CreatedAt, UpdatedAt
SortKinds ==
    { [body |-> BodyBareWord,  created |-> Stamp10, updated |-> Stamp1],
      [body |-> BodyMigration, created |-> Stamp1,  updated |-> Stamp10],
      [body |-> BodyMigration, created |-> Stamp2,  updated |-> Stamp2] }

Perms(n) == {p \in [1..n -> 1..n] : \A i \in 1..n : \A j \in 1..n : p[i] = p[j] => i = j}

\* The list of the test "should handle priority sorting with security and migration"
SecurityList ==
    << SortPR(1, "Regular update", BodyNone,      Stamp1,       <<0>>),
       SortPR(2, "SECURITY fix",   BodyNone,      Stamp2,       <<0>>),
       SortPR(3, "",               BodyMigration, <<3>>,        <<0>>),
       SortPR(4, "CVE fix",        BodyMigration, <<4>>,        <<0>>) >>

\* The pairs of elements of s a less function is asked about
Pairs(s) == { <<s[i], s[j]>> : i \in 1..Len(s), j \in 1..Len(s) }

\* sort.Slice(s, less): the arrangements it may leave; less is the set of
\* pairs <<a, b>> for which the less function answers true
SortSlice(s, less) ==
    { [i \in 1..Len(s) |-> s[p[i]]] :
        p \in { q \in Perms(Len(s)) :
                  \A i \in 1..Len(s) : \A j \in (i + 1)..Len(s) :
                      <<s[q[j]], s[q[i]]>> \notin less } }

lessOldest(a, b)  == StrLess(a.CreatedAt, b.CreatedAt)

lessUpdated(a, b) == StrLess(b.UpdatedAt, a.UpdatedAt)

lessNumber(a, b)  == a.Number < b.Number

\* Mutant: the migration warning is not looked at
lessPriorityByDateOnly(a, b) == StrLess(b.CreatedAt, a.CreatedAt)

lessPriority(a, b) ==
    LET iMigration == hasMigrationWarning(a)
        jMigration == hasMigrationWarning(b)
    IN IF iMigration /\ ~jMigration THEN TRUE
       ELSE IF ~iMigration /\ jMigration THEN FALSE
       ELSE StrLess(b.CreatedAt, a.CreatedAt)

\* Mutant: "updated" sorts the oldest update first
sortPullRequestsUpdatedAscending(prs, sortBy) ==
    CASE sortBy = "oldest"   -> SortSlice(prs, {ab \in Pairs(prs) : lessOldest(ab[1], ab[2])})
      [] sortBy = "updated"  -> SortSlice(prs, {ab \in Pairs(prs) : StrLess(ab[1].UpdatedAt, ab[2].UpdatedAt)})
      [] sortBy = "number"   -> SortSlice(prs, {ab \in Pairs(prs) : lessNumber(ab[1], ab[2])})
      [] sortBy = "priority" -> SortSlice(prs, {ab \in Pairs(prs) : lessPriority(ab[1], ab[2])})
      [] OTHER               -> {prs}

\* sortPullRequests(prs, sortBy): the lists it may leave in prs
sortPullRequests(prs, sortBy) ==
    CASE sortBy = "oldest"   -> SortSlice(prs, {ab \in Pairs(prs) : lessOldest(ab[1], ab[2])})
      [] sortBy = "updated"  -> SortSlice(prs, {ab \in Pairs(prs) : lessUpdated(ab[1], ab[2])})
      [] sortBy = "number"   -> SortSlice(prs, {ab \in Pairs(prs) : lessNumber(ab[1], ab[2])})
      [] sortBy = "priority" -> SortSlice(prs, {ab \in Pairs(prs) : lessPriority(ab[1], ab[2])})
      [] OTHER               -> {prs}

\* The comparison of sortPullRequestsWithContext, on prInfo records
lessContext(a, b) ==
    IF a.hasMigration /\ ~b.hasMigration THEN TRUE
    ELSE IF ~a.hasMigration /\ b.hasMigration THEN FALSE
    ELSE IF a.onlyTektonFiles /\ ~b.onlyTektonFiles THEN TRUE
    ELSE IF ~a.onlyTektonFiles /\ b.onlyTektonFiles THEN FALSE
    ELSE StrLess(b.pr.CreatedAt, a.pr.CreatedAt)

\* The priority branch of sortPullRequestsWithContext: one files Get per PR
\* (checkTektonFilesDetailed; tk[n] is what it answers for PR n, FALSE also
\* standing for its error), then the sort and the copy back
ContextSort(prs, tk) ==
    LET prInfos == [i \in 1..Len(prs) |->
                      [pr |-> prs[i],
                       hasMigration |-> hasMigrationWarning(prs[i]),
                       onlyTektonFiles |-> tk[prs[i].Number]]]
    IN { [prs |-> [i \in 1..Len(prs) |-> sorted[i].pr], gets |-> Len(prs)] :
           sorted \in SortSlice(prInfos, {ab \in Pairs(prInfos) : lessContext(ab[1], ab[2])}) }

\* Mutant: the early return for other keys is missing
sortPullRequestsWithContextAnyKey(prs, sortBy, tk) == ContextSort(prs, tk)

\* sortPullRequestsWithContext: the lists it may leave and the Gets it issued
sortPullRequestsWithContext(prs, sortBy, tk) ==
    IF sortBy # "priority"
    THEN {[prs |-> prs, gets |-> 0]}
    ELSE ContextSort(prs, tk)

\* listPullRequests, its sort block
listSort(prs, sortBy, isKonflux, tk) ==
    IF sortBy = ""
    THEN {[prs |-> prs, gets |-> 0]}
    ELSE UNION { IF isKonflux /\ sortBy = "priority"
                 THEN sortPullRequestsWithContext(s1, sortBy, tk)
                 ELSE {[prs |-> s1, gets |-> 0]} :
                 s1 \in sortPullRequests(prs, sortBy) }

SortKeys == {"oldest", "updated", "number", "priority", "newest", "bogus"}

\* Answers of the Tekton check the model tries, by PR number
TektonChecks ==
    { [n \in 1..(MaxSortLen + 1) |-> FALSE],
      [n \in 1..(MaxSortLen + 1) |-> TRUE],
      [n \in 1..(MaxSortLen + 1) |-> n % 2 = 1] }

SortCall(fn, prs, sortBy, isKonflux, tk) ==
    [fn |-> fn, prs |-> prs, sortBy |-> sortBy, isKonflux |-> isKonflux, tk |-> tk]

\* The Tekton answers tried for a call: all of them where the call asks
TektonChecksFor(sortBy, isKonflux) ==
    IF isKonflux /\ sortBy = "priority"
    THEN TektonChecks
    ELSE {[n \in 1..(MaxSortLen + 1) |-> TRUE]}

\* The calls made on the list l (InitSort takes lists of 0..MaxSortLen PRs,
\* their numbers 1..len in any order)
SortCallsOn(l) ==
    { SortCall("sortPullRequests", l, k, FALSE, [n \in 1..(MaxSortLen + 1) |-> FALSE]) :
        k \in SortKeys }
    \cup
    UNION { { SortCall("sortPullRequestsWithContext", l, k, TRUE, tk) :
                tk \in TektonChecksFor(k, TRUE) } : k \in {"priority", "oldest"} }
    \cup
    UNION { { SortCall("listPullRequests", l, k[1], k[2], tk) :
                tk \in TektonChecksFor(k[1], k[2]) } :
            k \in {"", "priority", "number"} \X BOOLEAN }

InitSort ==
    /\ \/ \E len \in 0..MaxSortLen : \E k \in [1..len -> SortKinds] : \E num \in Perms(len) :
             fnCall \in SortCallsOn([i \in 1..len |->
                 SortPR(num[i], "update", k[i].body, k[i].created, k[i].updated)])
       \/ fnCall \in SortCallsOn(SecurityList)
    /\ fnResult = NoFn
    /\ cache = NewPRDetailsCache
    /\ detailsGets = << >>
    /\ CacheIdle
    /\ SessIdle
    /\ ConcIdle

Returns(fn, outcomes) ==
    /\ fnCall.fn = fn
    /\ fnResult = NoFn
    /\ \E o \in outcomes : fnResult' = [fn |-> fn, prs |-> o.prs, gets |-> o.gets]
    /\ UNCHANGED <<fnCall, cache, detailsGets, cacheVars, sessVars, concVars>>

CallSortPullRequests ==
    Returns("sortPullRequests",
            { [prs |-> l, gets |-> 0] : l \in sortPullRequests(fnCall.prs, fnCall.sortBy) })

CallSortPullRequestsWithContext ==
    Returns("sortPullRequestsWithContext",
            sortPullRequestsWithContext(fnCall.prs, fnCall.sortBy, fnCall.tk))

CallListSort ==
    Returns("listPullRequests",
            listSort(fnCall.prs, fnCall.sortBy, fnCall.isKonflux, fnCall.tk))

NextSort ==
    \/ CallSortPullRequests
    \/ CallSortPullRequestsWithContext
    \/ CallListSort

SpecSort == InitSort /\ [][NextSort]_vars

----------------------------------------------------------------------------
(* Claims about sorting, checked under SpecSort *)

\* The call of fn has returned
Returned(fn) == fnCall.fn = fn /\ fnResult.fn = fn

\* b holds the elements of a, each as often as a does
IsPermutation(a, b) ==
    /\ Len(a) = Len(b)
    /\ \A i \in 1..Len(a) :
          Cardinality({j \in 1..Len(a) : a[j] = a[i]}) =
          Cardinality({j \in 1..Len(b) : b[j] = a[i]})

\* C13: sortPullRequests issues no Get whatever the key;
\* sortPullRequestsWithContext with a key other than "priority" issues no Get
\* and leaves the list as it was; the sort block of listPullRequests issues
\* Gets only for the Konflux command with sortBy = "priority".
C13_SortNetworkCalls ==
    /\ Returned("sortPullRequests") => fnResult.gets = 0
    /\ (Returned("sortPullRequestsWithContext") /\ fnCall.sortBy # "priority") =>
          /\ fnResult.gets = 0
          /\ fnResult.prs = fnCall.prs
    /\ (Returned("listPullRequests") /\ fnResult.gets > 0) =>
          /\ fnCall.isKonflux
          /\ fnCall.sortBy = "priority"

\* C13 witness: sortPullRequestsWithContext was called with "oldest" on a
\* list that is not in that order, and returned it untouched with no Get.
C13_Witness ==
    /\ Returned("sortPullRequestsWithContext")
    /\ fnCall.sortBy = "oldest"
    /\ Len(fnCall.prs) >= 2
    /\ StrLess(fnCall.prs[2].CreatedAt, fnCall.prs[1].CreatedAt)
    /\ fnCall.tk[1]
    /\ fnResult.prs = fnCall.prs
    /\ fnResult.gets = 0

C15_SecurityFirst ==
    (Returned("sortPullRequests") /\ fnCall.sortBy = "priority" /\ fnCall.prs = SecurityList) =>
        /\ fnResult.prs[1].Title = "CVE fix"
        /\ fnResult.prs[2].Title = "SECURITY fix"

\* C16: for "oldest", "updated" and "number" sortPullRequests leaves a
\* permutation of its input ordered by CreatedAt ascending, UpdatedAt
\* descending and Number ascending, the timestamps compared as strings; for
\* "newest" and for an unknown key the list stays as it was.
C16_SimpleSorts ==
    Returned("sortPullRequests") =>
        LET out == fnResult.prs
            Ordered(inOrder(_, _)) ==
                \A i \in 1..Len(out) : \A j \in (i + 1)..Len(out) : inOrder(out[i], out[j])
        IN
        /\ fnCall.sortBy \in {"oldest", "updated", "number"} => IsPermutation(fnCall.prs, out)
        /\ fnCall.sortBy = "oldest" =>
              Ordered(LAMBDA a, b : ~StrLess(b.CreatedAt, a.CreatedAt))
        /\ fnCall.sortBy = "updated" =>
              Ordered(LAMBDA a, b : ~StrLess(a.UpdatedAt, b.UpdatedAt))
        /\ fnCall.sortBy = "number" =>
              Ordered(LAMBDA a, b : a.Number <= b.Number)
        /\ fnCall.sortBy \in {"newest", "bogus"} => out = fnCall.prs

\* C16 witness: a list of three in another order was sorted by "updated";
\* its dates "2", "10", "1" come out in that order, as strings do.
C16_Witness ==
    /\ Returned("sortPullRequests")
    /\ fnCall.sortBy = "updated"
    /\ Len(fnCall.prs) = 3
    /\ fnResult.prs # fnCall.prs
    /\ fnResult.prs[1].UpdatedAt = Stamp2
    /\ fnResult.prs[2].UpdatedAt = Stamp10
    /\ fnResult.prs[3].UpdatedAt = Stamp1

----------------------------------------------------------------------------
(* checkTektonFilesDetailed (the Tekton file classifier), SpecTekton *)

\* Longest list of changed files a call is given
MaxFiles == 3

\* strings.HasPrefix and strings.HasSuffix; a string is a sequence of pieces
HasPrefix(s, prefix) ==
    Len(s) >= Len(prefix) /\ SubSeq(s, 1, Len(prefix)) = prefix

HasSuffix(s, suffix) ==
    Len(s) >= Len(suffix) /\ SubSeq(s, Len(s) - Len(suffix) + 1, Len(s)) = suffix

\* Filenames of the files Get: in .tekton/ with either suffix, in .tekton/
\* without one, outside .tekton/ with a suffix, outside without
Filenames ==
    { <<".tekton/", "a", "-pull-request.yaml">>,
      <<".tekton/", "a", "-push.yaml">>,
      <<".tekton/", "README.md">>,
      <<"ci/", "a", "-push.yaml">>,
      <<"main.go">> }

\* Outcome of the Get on repos/o/r/pulls/{n}/files
FetchOutcomes == {"ok", "error"}

\* The test the loop applies to one filename, with the prefix test dropped
isTektonFileAnyDirectory(name) ==
    HasSuffix(name, <<"-pull-request.yaml">>) \/ HasSuffix(name, <<"-push.yaml">>)

\* The test the loop applies to one filename
isTektonFile(name) ==
    /\ HasPrefix(name, <<".tekton/">>)
    /\ HasSuffix(name, <<"-pull-request.yaml">>) \/ HasSuffix(name, <<"-push.yaml">>)

\* checkTektonFilesDetailed returning no filenames unless all are Tekton files
checkTektonFilesDetailedListOnlyWhenExclusive(fetch, files) ==
    IF fetch = "error"
    THEN [onlyTektonFiles |-> FALSE, tektonFiles |-> << >>, err |-> "error"]
    ELSE LET tektonFiles    == SelectSeq(files, isTektonFile)
             notTekton(f)   == ~isTektonFile(f)
             nonTektonFiles == SelectSeq(files, notTekton)
             only           == Len(tektonFiles) > 0 /\ Len(nonTektonFiles) = 0
         IN  [onlyTektonFiles |-> only,
              tektonFiles     |-> IF only THEN tektonFiles ELSE << >>,
              err             |-> "nil"]

\* checkTektonFilesDetailed: one Get, then the partition of the filenames.
\* A nil slice is the sequence of length 0.
checkTektonFilesDetailed(fetch, files) ==
    IF fetch = "error"
    THEN [onlyTektonFiles |-> FALSE, tektonFiles |-> << >>, err |-> "error"]
    ELSE LET tektonFiles    == SelectSeq(files, isTektonFile)
             notTekton(f)   == ~isTektonFile(f)
             nonTektonFiles == SelectSeq(files, notTekton)
         IN  [onlyTektonFiles |-> Len(tektonFiles) > 0 /\ Len(nonTektonFiles) = 0,
              tektonFiles     |-> tektonFiles,
              err             |-> "nil"]

InitTekton ==
    /\ \E len \in 0..MaxFiles : \E files \in [1..len -> Filenames] :
       \E fetch \in FetchOutcomes :
          fnCall = [fn |-> "checkTektonFilesDetailed", files |-> files, fetch |-> fetch]
    /\ fnResult = NoFn
    /\ cache = NewPRDetailsCache
    /\ detailsGets = << >>
    /\ CacheIdle
    /\ SessIdle
    /\ ConcIdle

CallCheckTektonFilesDetailed ==
    /\ fnCall.fn = "checkTektonFilesDetailed"
    /\ fnResult = NoFn
    /\ LET r == checkTektonFilesDetailed(fnCall.fetch, fnCall.files)
       IN  fnResult' = [fn |-> "checkTektonFilesDetailed",
                        onlyTektonFiles |-> r.onlyTektonFiles,
                        tektonFiles |-> r.tektonFiles,
                        err |-> r.err]
    /\ UNCHANGED <<fnCall, cache, detailsGets, cacheVars, sessVars, concVars>>

NextTekton == CallCheckTektonFilesDetailed

SpecTekton == InitTekton /\ [][NextTekton]_vars

----------------------------------------------------------------------------
(* Claims about the Tekton file classifier, checked under SpecTekton *)

\* The name starts with ".tekton/" and ends with one of the two suffixes
Recognised(name) ==
    /\ name[1] = ".tekton/"
    /\ name[Len(name)] \in {"-pull-request.yaml", "-push.yaml"}

\* C17: checkTektonFilesDetailed returns exclusivelyTekton = true exactly when
\* the fetch succeeds, at least one filename has the prefix ".tekton/" and the
\* suffix "-pull-request.yaml" or "-push.yaml", and no filename fails that
\* test; an empty file list gives false; a fetch error gives (false, nil, err).
C17_ExclusivelyTekton ==
    Returned("checkTektonFilesDetailed") =>
        LET files == fnCall.files
        IN  /\ fnResult.onlyTektonFiles <=>
                  /\ fnCall.fetch = "ok"
                  /\ \E i \in 1..Len(files) : Recognised(files[i])
                  /\ \A i \in 1..Len(files) : Recognised(files[i])
            /\ files = << >> => ~fnResult.onlyTektonFiles
            /\ fnCall.fetch = "error" =>
                  /\ ~fnResult.onlyTektonFiles
                  /\ fnResult.tektonFiles = << >>
                  /\ fnResult.err = "error"
            /\ fnCall.fetch = "ok" => fnResult.err = "nil"

\* A call on two Tekton files has returned true
C17_Witness ==
    /\ Returned("checkTektonFilesDetailed")
    /\ fnCall.fetch = "ok"
    /\ fnCall.files = << <<".tekton/", "a", "-pull-request.yaml">>,
                         <<".tekton/", "a", "-push.yaml">> >>
    /\ fnResult.onlyTektonFiles

\* The scenario's call: one Tekton file and .tekton/README.md, fetch succeeded
MixedFiles ==
    << <<".tekton/", "a", "-pull-request.yaml">>, <<".tekton/", "README.md">> >>

ReturnedOnMixedFiles ==
    /\ Returned("checkTektonFilesDetailed")
    /\ fnCall.fetch = "ok"
    /\ fnCall.files = MixedFiles

\* C18 as stated: for the files .tekton/a-pull-request.yaml and
\* .tekton/README.md the call returns false, an empty list of matched files
\* and a nil error.
C18_MixedFilesEmptyList ==
    ReturnedOnMixedFiles =>
        /\ ~fnResult.onlyTektonFiles
        /\ fnResult.tektonFiles = << >>
        /\ fnResult.err = "nil"

\* C18: for the files .tekton/a-pull-request.yaml and .tekton/README.md the
\* call returns false and a nil error, and the list of matched files holds
\* .tekton/a-pull-request.yaml and nothing else.
C18_MixedFilesMatchedList ==
    ReturnedOnMixedFiles =>
        /\ ~fnResult.onlyTektonFiles
        /\ fnResult.tektonFiles = << <<".tekton/", "a", "-pull-request.yaml">> >>
        /\ fnResult.err = "nil"

\* The scenario's call has returned false
C18_Witness ==
    ReturnedOnMixedFiles /\ ~fnResult.onlyTektonFiles

----------------------------------------------------------------------------
(* getStatusIcon, SpecIcon *)

\* pr.State values: the three the switch names and one it does not
IconStates == {"open", "closed", "merged", "unknown"}

\* Label names a PR may carry
IconLabels == {HoldLabel, "approved", "lgtm", "bug"}

\* The six glyphs, by colour and shape
GlyphDraft  == "yellow circle"
GlyphOnHold == "orange diamond"
GlyphOpen   == "green circle"
GlyphClosed == "red circle"
GlyphMerged == "purple circle"
GlyphOther  == "white circle"

getStatusIcon(pr) ==
    LET onHold == isOnHold(pr)
    IN  IF pr.Draft THEN GlyphDraft
        ELSE CASE pr.State = "open"   -> IF onHold THEN GlyphOnHold ELSE GlyphOpen
               [] pr.State = "closed" -> GlyphClosed
               [] pr.State = "merged" -> GlyphMerged
               [] OTHER               -> IF onHold THEN GlyphOnHold ELSE GlyphOther

InitIcon ==
    /\ \E draft \in BOOLEAN : \E state \in IconStates : \E labels \in SUBSET IconLabels :
          fnCall = [fn |-> "getStatusIcon",
                    pr |-> PR(1, "update", BodyNone, state, draft, labels, "")]
    /\ fnResult = NoFn
    /\ cache = NewPRDetailsCache
    /\ detailsGets = << >>
    /\ CacheIdle
    /\ SessIdle
    /\ ConcIdle

CallGetStatusIcon ==
    /\ fnCall.fn = "getStatusIcon"
    /\ fnResult = NoFn
    /\ fnResult' = [fn |-> "getStatusIcon", icon |-> getStatusIcon(fnCall.pr)]
    /\ UNCHANGED <<fnCall, cache, detailsGets, cacheVars, sessVars, concVars>>

NextIcon == CallGetStatusIcon

SpecIcon == InitIcon /\ [][NextIcon]_vars

----------------------------------------------------------------------------
(* Claims about getStatusIcon, checked under SpecIcon *)

\* C19: the precedence is draft, then on-hold, then state: a PR that is not a
\* draft and carries the hold label gets the on-hold glyph whatever its State
\* is (open, closed, merged or anything else), and a draft gets the draft glyph.
C19_HoldBeforeState ==
    Returned("getStatusIcon") =>
        /\ fnCall.pr.Draft => fnResult.icon = GlyphDraft
        /\ ~fnCall.pr.Draft /\ HoldLabel \in fnCall.pr.Labels =>
              fnResult.icon = GlyphOnHold

----------------------------------------------------------------------------
(* TruncateString, DisplayWidth and StripANSISequences, SpecText *)

\* Longest string (in runes) and largest maxWidth a call is given
MaxRunes == 3
MaxWidth == 5

\* Runes (code points) strings are made of
RuneTab      == 9
RuneESC      == 27
RuneDot      == 46
RuneLBracket == 91
RuneRBracket == 93
RuneLetter   == 97
RuneEmoticon == 128512
RuneCircle   == 128992

\* A string is the sequence of its runes
TextRunes ==
    {RuneTab, RuneESC, RuneLBracket, RuneRBracket, RuneLetter, RuneEmoticon, RuneCircle}

\* The loops of StripANSISequences that skip up to and over a final byte
\* (0x40 to 0x7E); the value is the index the loop leaves i at (1-based)
RECURSIVE SkipToFinalByte(_, _)

\* The loop skipping one rune, whatever it is
SkipToFinalByteOneRune(runes, i) ==
    IF i > Len(runes) THEN i ELSE i + 1

SkipToFinalByte(runes, i) ==
    IF i > Len(runes) THEN i
    ELSE IF runes[i] >= 64 /\ runes[i] <= 126 THEN i + 1
    ELSE SkipToFinalByte(runes, i + 1)

\* The loop that skips an OSC sequence up to and over BEL or ESC \
RECURSIVE SkipOSC(_, _)
SkipOSC(runes, i) ==
    IF i > Len(runes) THEN i
    ELSE IF runes[i] = 7 THEN i + 1
    ELSE IF runes[i] = RuneESC /\ i + 1 <= Len(runes) /\ runes[i + 1] = 92 THEN i + 2
    ELSE SkipOSC(runes, i + 1)

\* The outer loop of StripANSISequences from index i on (1-based)
RECURSIVE StripFrom(_, _)

\* The outer loop writing the ESC of a sequence that is neither CSI nor OSC
StripFromKeepingESC(runes, i) ==
    IF i > Len(runes) THEN << >>
    ELSE IF runes[i] = RuneESC /\ i + 1 <= Len(runes)
         THEN IF runes[i + 1] = RuneRBracket
              THEN StripFrom(runes, SkipOSC(runes, i + 2))
              ELSE IF runes[i + 1] = RuneLBracket
                   THEN StripFrom(runes, SkipToFinalByte(runes, i + 2))
                   ELSE <<runes[i]>> \o StripFrom(runes, SkipToFinalByte(runes, i + 1))
         ELSE <<runes[i]>> \o StripFrom(runes, i + 1)

StripFrom(runes, i) ==
    IF i > Len(runes) THEN << >>
    ELSE IF runes[i] = RuneESC /\ i + 1 <= Len(runes)
         THEN IF runes[i + 1] = RuneRBracket
              THEN StripFrom(runes, SkipOSC(runes, i + 2))
              ELSE IF runes[i + 1] = RuneLBracket
                   THEN StripFrom(runes, SkipToFinalByte(runes, i + 2))
                   ELSE StripFrom(runes, SkipToFinalByte(runes, i + 1))
         ELSE <<runes[i]>> \o StripFrom(runes, i + 1)

StripANSISequences(s) == StripFrom(s, 1)

\* The width DisplayWidth adds for one rune
DisplayRuneWidth(r) ==
    IF \/ r >= 128512 /\ r <= 128591    \* 0x1F600-0x1F64F
       \/ r >= 127744 /\ r <= 128511    \* 0x1F300-0x1F5FF
       \/ r >= 128640 /\ r <= 128767    \* 0x1F680-0x1F6FF
       \/ r >= 128992 /\ r <= 129003    \* 0x1F7E0-0x1F7EB
       \/ r >= 127456 /\ r <= 127487    \* 0x1F1E0-0x1F1FF
       \/ r >= 9728 /\ r <= 9983        \* 0x2600-0x26FF
       \/ r >= 9984 /\ r <= 10175       \* 0x2700-0x27BF
       \/ r = 8205                      \* 0x200D
       \/ r >= 65039 /\ r <= 65039      \* 0xFE0F
    THEN 2
    ELSE IF r >= 32 THEN 1 ELSE 0

RECURSIVE SumWidths(_)
SumWidths(runes) ==
    IF runes = << >> THEN 0
    ELSE DisplayRuneWidth(Head(runes)) + SumWidths(Tail(runes))

DisplayWidth(s) == SumWidths(StripANSISequences(s))

\* charWidth of the loop of TruncateString
charWidth(r) ==
    IF \/ r >= 128512 /\ r <= 128591    \* 0x1F600-0x1F64F
       \/ r >= 127744 /\ r <= 128511    \* 0x1F300-0x1F5FF
       \/ r >= 128640 /\ r <= 128767    \* 0x1F680-0x1F6FF
       \/ r >= 127456 /\ r <= 127487    \* 0x1F1E0-0x1F1FF
       \/ r >= 9728 /\ r <= 9983        \* 0x2600-0x26FF
       \/ r >= 9984 /\ r <= 10175       \* 0x2700-0x27BF
    THEN 2
    ELSE 1

\* The loop of TruncateString from index i on (1-based) with currentWidth
RECURSIVE TruncateLoop(_, _, _, _)
TruncateLoop(runes, i, currentWidth, targetWidth) ==
    IF i > Len(runes) THEN runes
    ELSE IF currentWidth + charWidth(runes[i]) > targetWidth
         THEN SubSeq(runes, 1, i - 1) \o <<RuneDot, RuneDot, RuneDot>>
         ELSE TruncateLoop(runes, i + 1, currentWidth + charWidth(runes[i]), targetWidth)

TruncateString(s, maxWidth) ==
    IF DisplayWidth(s) <= maxWidth THEN s
    ELSE IF maxWidth <= 3
         THEN IF Len(s) <= maxWidth THEN s ELSE SubSeq(s, 1, maxWidth)
         ELSE TruncateLoop(s, 1, 0, maxWidth - 3)

InitText ==
    /\ \E len \in 0..MaxRunes : \E s \in [1..len -> TextRunes] :
       \E maxWidth \in 0..MaxWidth :
          fnCall = [fn |-> "TruncateString", s |-> s, maxWidth |-> maxWidth]
    /\ fnResult = NoFn
    /\ cache = NewPRDetailsCache
    /\ detailsGets = << >>
    /\ CacheIdle
    /\ SessIdle
    /\ ConcIdle

CallTruncateString ==
    /\ fnCall.fn = "TruncateString"
    /\ fnResult = NoFn
    /\ fnResult' = [fn |-> "TruncateString",
                    s |-> TruncateString(fnCall.s, fnCall.maxWidth)]
    /\ UNCHANGED <<fnCall, cache, detailsGets, cacheVars, sessVars, concVars>>

NextText == CallTruncateString

SpecText == InitText /\ [][NextText]_vars

----------------------------------------------------------------------------
(* Claims about TruncateString, checked under SpecText *)

\* C20: for every string s and every maxWidth >= 0 the display width of
\* TruncateString(s, maxWidth) is at most maxWidth, for maxWidth <= 3 and for
\* strings with runes two columns wide as well.
C20_TruncateFits ==
    Returned("TruncateString") => DisplayWidth(fnResult.s) <= fnCall.maxWidth

----------------------------------------------------------------------------
(* StripANSISequences on its own, SpecStrip *)

\* Longest string (in runes) StripANSISequences is given
MaxStripLen == 4

RuneBEL       == 7
RuneDigit     == 49
RuneBackslash == 92

\* The runes StripANSISequences tells apart: ESC, the two introducers, the
\* two OSC terminators, a final byte (a letter) and a rune that is none of
\* these (a digit)
StripRunes ==
    {RuneESC, RuneLBracket, RuneRBracket, RuneBEL, RuneBackslash, RuneLetter, RuneDigit}

InitStrip ==
    /\ \E len \in 0..MaxStripLen : \E s \in [1..len -> StripRunes] :
          fnCall = [fn |-> "StripANSISequences", s |-> s]
    /\ fnResult = NoFn
    /\ cache = NewPRDetailsCache
    /\ detailsGets = << >>
    /\ CacheIdle
    /\ SessIdle
    /\ ConcIdle

\* StripANSISequences(s)
CallStripANSISequences ==
    /\ fnCall.fn = "StripANSISequences"
    /\ fnResult = NoFn
    /\ fnResult' = [fn |-> "StripANSISequences", calls |-> 1, arg |-> fnCall.s,
                    s |-> StripANSISequences(fnCall.s)]
    /\ UNCHANGED <<fnCall, cache, detailsGets, cacheVars, sessVars, concVars>>

\* StripANSISequences applied to the string the first call returned
CallStripANSISequencesAgain ==
    /\ fnCall.fn = "StripANSISequences"
    /\ fnResult # NoFn
    /\ fnResult.calls = 1
    /\ fnResult' = [fn |-> "StripANSISequences", calls |-> 2, arg |-> fnResult.s,
                    s |-> StripANSISequences(fnResult.s)]
    /\ UNCHANGED <<fnCall, cache, detailsGets, cacheVars, sessVars, concVars>>

NextStrip ==
    \/ CallStripANSISequences
    \/ CallStripANSISequencesAgain

SpecStrip == InitStrip /\ [][NextStrip]_vars

----------------------------------------------------------------------------
(* Claims about StripANSISequences, checked under SpecStrip *)

\* A final byte of a sequence
FinalByte(r) == r >= 64 /\ r <= 126

\* seg is a CSI sequence: ESC, '[', runes that are no final byte, a final
\* byte; at the end of the input the final byte may be missing
IsCSISequence(seg, atEnd) ==
    /\ Len(seg) >= 2
    /\ seg[1] = RuneESC
    /\ seg[2] = RuneLBracket
    /\ \/ /\ Len(seg) >= 3
          /\ FinalByte(seg[Len(seg)])
          /\ \A k \in 3..(Len(seg) - 1) : ~FinalByte(seg[k])
       \/ /\ atEnd
          /\ \A k \in 3..Len(seg) : ~FinalByte(seg[k])

\* No BEL and no ESC-backslash in seg[from..to]
NoTerminator(seg, from, to) ==
    /\ \A k \in from..to : seg[k] # RuneBEL
    /\ \A k \in from..(to - 1) : ~(seg[k] = RuneESC /\ seg[k + 1] = RuneBackslash)

\* seg is an OSC sequence: ESC, ']', runes up to the first BEL or
\* ESC-backslash; at the end of the input the terminator may be missing
IsOSCSequence(seg, atEnd) ==
    /\ Len(seg) >= 2
    /\ seg[1] = RuneESC
    /\ seg[2] = RuneRBracket
    /\ \/ /\ Len(seg) >= 3
          /\ seg[Len(seg)] = RuneBEL
          /\ NoTerminator(seg, 3, Len(seg) - 1)
       \/ /\ Len(seg) >= 4
          /\ seg[Len(seg) - 1] = RuneESC
          /\ seg[Len(seg)] = RuneBackslash
          /\ NoTerminator(seg, 3, Len(seg) - 2)
       \/ /\ atEnd
          /\ NoTerminator(seg, 3, Len(seg))

\* seg is another escape sequence: ESC, then runes other than '[' and ']' up
\* to the first final byte; at the end of the input it may be missing
IsOtherSequence(seg, atEnd) ==
    /\ Len(seg) >= 2
    /\ seg[1] = RuneESC
    /\ seg[2] \notin {RuneLBracket, RuneRBracket}
    /\ \/ /\ FinalByte(seg[Len(seg)])
          /\ \A k \in 2..(Len(seg) - 1) : ~FinalByte(seg[k])
       \/ /\ atEnd
          /\ \A k \in 2..Len(seg) : ~FinalByte(seg[k])

\* out is s without its escape sequences: s splits into pieces, each one
\* escape sequence or one ordinary rune, and out is the ordinary runes in
\* order. With otherToo the sequences are CSI, OSC and the other ones, and an
\* ESC is ordinary only as the last rune; without it they are CSI and OSC only
\* and an ESC not followed by '[' or ']' is ordinary as well.
StrippedOf(s, out, otherToo) ==
    LET n == Len(s)
    IN  \E ends \in SUBSET (1..n) :
          LET starts(a)  == a = 1 \/ (a - 1) \in ends
              endOf(a)   == CHOOSE b \in ends : b >= a /\ \A c \in ends : c >= a => b <= c
              ordinary(a) ==
                  \/ s[a] # RuneESC
                  \/ a = n
                  \/ ~otherToo /\ s[a + 1] \notin {RuneLBracket, RuneRBracket}
              kept == { a \in 1..n : starts(a) /\ a \in ends /\ ordinary(a) }
              nth(k) == CHOOSE a \in kept : Cardinality({ c \in kept : c <= a }) = k
          IN  /\ n > 0 => n \in ends
              /\ \A a \in 1..n : starts(a) =>
                    LET seg == SubSeq(s, a, endOf(a))
                    IN  \/ a \in kept
                        \/ IsCSISequence(seg, endOf(a) = n)
                        \/ IsOSCSequence(seg, endOf(a) = n)
                        \/ otherToo /\ IsOtherSequence(seg, endOf(a) = n)
              /\ out = [k \in 1..Cardinality(kept) |-> s[nth(k)]]

\* C21 as stated: StripANSISequences removes the CSI and the OSC sequences
\* and nothing else: every other rune, an ESC followed by any other character
\* and the text after it included, is in the output, unchanged and in order.
C21_OnlyCSIAndOSCRemoved ==
    (Returned("StripANSISequences") /\ fnResult.calls = 1) =>
        StrippedOf(fnResult.arg, fnResult.s, FALSE)

\* C21: StripANSISequences removes the CSI sequences, the OSC sequences and
\* every other escape sequence (an ESC followed by another character, up to
\* and including the first final byte 0x40..0x7E, or up to the end of the
\* input); every rune outside these sequences, a lone ESC at the very end
\* included, is in the output, unchanged and in order.
C21_EscapeSequencesRemoved ==
    (Returned("StripANSISequences") /\ fnResult.calls = 1) =>
        StrippedOf(fnResult.arg, fnResult.s, TRUE)

\* An ESC followed by a digit, a letter and more text was stripped: only the
\* text after the letter is left
C21_Witness ==
    /\ Returned("StripANSISequences")
    /\ fnResult.calls = 1
    /\ fnResult.arg = <<RuneESC, RuneDigit, RuneLetter, RuneDigit>>
    /\ fnResult.s = <<RuneDigit>>

\* C22: StripANSISequences is idempotent: stripping the string a first call
\* returned gives that string again, for inputs with unterminated or malformed
\* sequences and a trailing lone ESC as well.
C22_StripIdempotent ==
    (Returned("StripANSISequences") /\ fnResult.calls = 2) =>
        fnResult.s = fnResult.arg

\* A string with a CSI sequence and a trailing lone ESC was stripped twice;
\* the first call left the ESC
C22_Witness ==
    /\ Returned("StripANSISequences")
    /\ fnResult.calls = 2
    /\ fnCall.s = <<RuneESC, RuneLBracket, RuneLetter, RuneESC>>
    /\ fnResult.arg = <<RuneESC>>
    /\ fnResult.s = <<RuneESC>>

----------------------------------------------------------------------------
(* isReviewed, SpecReviewed *)

\* Longest list of reviews the reviews Get answers with
MaxReviews == 2

\* Label names a PR may carry; "Approved" differs from "approved" by case
ReviewLabels == {"approved", "lgtm", "Approved", "bug", HoldLabel}

\* Review.State values
ReviewStates == {"APPROVED", "CHANGES_REQUESTED", "COMMENTED"}

\* isReviewed answering true when the reviews Get fails
isReviewedFailOpen(labels, fetchErr, reviews) ==
    IF \E label \in labels : label = "approved" \/ label = "lgtm"
    THEN [reviewed |-> TRUE, gets |-> 0]
    ELSE IF fetchErr
         THEN [reviewed |-> TRUE, gets |-> 1]
         ELSE [reviewed |-> \E i \in 1..Len(reviews) : reviews[i] = "APPROVED",
               gets     |-> 1]

\* isReviewed: the labels first, then one Get of the reviews; gets counts the
\* Gets issued
isReviewed(labels, fetchErr, reviews) ==
    IF \E label \in labels : label = "approved" \/ label = "lgtm"
    THEN [reviewed |-> TRUE, gets |-> 0]
    ELSE IF fetchErr
         THEN [reviewed |-> FALSE, gets |-> 1]
         ELSE [reviewed |-> \E i \in 1..Len(reviews) : reviews[i] = "APPROVED",
               gets     |-> 1]

InitReviewed ==
    /\ \E labels \in SUBSET ReviewLabels :
          \/ fnCall = [fn |-> "isReviewed", labels |-> labels,
                       fetchErr |-> TRUE, reviews |-> << >>]
          \/ \E len \in 0..MaxReviews : \E reviews \in [1..len -> ReviewStates] :
                fnCall = [fn |-> "isReviewed", labels |-> labels,
                          fetchErr |-> FALSE, reviews |-> reviews]
    /\ fnResult = NoFn
    /\ cache = NewPRDetailsCache
    /\ detailsGets = << >>
    /\ CacheIdle
    /\ SessIdle
    /\ ConcIdle

CallIsReviewed ==
    /\ fnCall.fn = "isReviewed"
    /\ fnResult = NoFn
    /\ LET r == isReviewed(fnCall.labels, fnCall.fetchErr, fnCall.reviews)
       IN  fnResult' = [fn |-> "isReviewed", reviewed |-> r.reviewed, gets |-> r.gets]
    /\ UNCHANGED <<fnCall, cache, detailsGets, cacheVars, sessVars, concVars>>

NextReviewed == CallIsReviewed

SpecReviewed == InitReviewed /\ [][NextReviewed]_vars

----------------------------------------------------------------------------
(* Claims about isReviewed, checked under SpecReviewed *)

\* C23: isReviewed returns true without any Get when a label is exactly
\* "approved" or "lgtm"; otherwise it fetches the reviews once and returns
\* true exactly when a review has State "APPROVED"; when that fetch fails it
\* returns false.
C23_IsReviewed ==
    Returned("isReviewed") =>
        IF "approved" \in fnCall.labels \/ "lgtm" \in fnCall.labels
        THEN fnResult.reviewed /\ fnResult.gets = 0
        ELSE /\ fnResult.gets = 1
             /\ fnCall.fetchErr => ~fnResult.reviewed
             /\ ~fnCall.fetchErr =>
                   (fnResult.reviewed <=>
                       \E i \in 1..Len(fnCall.reviews) : fnCall.reviews[i] = "APPROVED")

\* A PR labelled only "Approved" and "bug" whose reviews Get failed was
\* found not reviewed, after one Get
C23_Witness ==
    /\ Returned("isReviewed")
    /\ fnCall.labels = {"Approved", "bug"}
    /\ fnCall.fetchErr
    /\ ~fnResult.reviewed
    /\ fnResult.gets = 1

----------------------------------------------------------------------------
(* hasMigrationWarning on its own, SpecMigration *)

\* Most pieces a PR body is put together from
MaxPieces == 3

\* Pieces of body text: the warning emoji, :warning:, the bracketed marker in
\* lower and in upper case, the bare word in two spellings, other text, and
\* the two brackets on their own
BodyPieces ==
    { <<"WARN">>,
      <<":", "w", "a", "r", "n", "i", "n", "g", ":">>,
      <<"[", "m", "i", "g", "r", "a", "t", "i", "o", "n", "]">>,
      <<"[", "M", "I", "G", "R", "A", "T", "I", "O", "N", "]">>,
      <<"M", "i", "g", "r", "a", "t", "i", "o", "n">>,
      <<"m", "i", "g", "r", "a", "t", "i", "o", "n">>,
      <<" ", "g", "u", "i", "d", "e">>,
      <<"[">>,
      <<"]">> }

\* The pieces of ps one after the other
RECURSIVE Join(_)
Join(ps) == IF ps = << >> THEN << >> ELSE Head(ps) \o Join(Tail(ps))

InitMigration ==
    /\ \E len \in 0..MaxPieces : \E ps \in [1..len -> BodyPieces] :
          fnCall = [fn |-> "hasMigrationWarning",
                    pr |-> PR(1, "update", Join(ps), "open", FALSE, {}, "")]
    /\ fnResult = NoFn
    /\ cache = NewPRDetailsCache
    /\ detailsGets = << >>
    /\ CacheIdle
    /\ SessIdle
    /\ ConcIdle

CallHasMigrationWarning ==
    /\ fnCall.fn = "hasMigrationWarning"
    /\ fnResult = NoFn
    /\ fnResult' = [fn |-> "hasMigrationWarning", warning |-> hasMigrationWarning(fnCall.pr)]
    /\ UNCHANGED <<fnCall, cache, detailsGets, cacheVars, sessVars, concVars>>

NextMigration == CallHasMigrationWarning

SpecMigration == InitMigration /\ [][NextMigration]_vars

----------------------------------------------------------------------------
(* Claims about hasMigrationWarning, checked under SpecMigration *)

\* The four markers, in lower case
Markers ==
    { <<"WARN", "[", "m", "i", "g", "r", "a", "t", "i", "o", "n", "]">>,
      <<":", "w", "a", "r", "n", "i", "n", "g", ":", "[", "m", "i", "g", "r", "a", "t", "i", "o", "n", "]">>,
      <<"WARN", "m", "i", "g", "r", "a", "t", "i", "o", "n", "WARN">>,
      <<"[", "m", "i", "g", "r", "a", "t", "i", "o", "n", "]">> }

\* Symbol ch is the lower-case symbol low, in either case
MatchesFolded(ch, low) ==
    \/ ch = low
    \/ <<ch, low>> \in { <<"M", "m">>, <<"I", "i">>, <<"G", "g">>, <<"R", "r">>,
                         <<"A", "a">>, <<"T", "t">>, <<"O", "o">>, <<"N", "n">>,
                         <<"W", "w">> }

\* The body holds marker at some place, whatever the case of its letters
HoldsMarker(body, marker) ==
    \E i \in 0..(Len(body) - Len(marker)) :
        \A j \in 1..Len(marker) : MatchesFolded(body[i + j], marker[j])

\* C24: hasMigrationWarning(pr) is true exactly when the Body holds one of the
\* four markers (warning emoji or :warning: directly followed by [migration],
\* migration between warning emoji, or plain [migration]), letters matched
\* whatever their case; a body with only the bare word migration gives false.
C24_MigrationMarkers ==
    Returned("hasMigrationWarning") =>
        /\ fnResult.warning <=> \E marker \in Markers : HoldsMarker(fnCall.pr.Body, marker)
        /\ fnCall.pr.Body = BodyBareWord => ~fnResult.warning
        /\ (\A i \in 1..Len(fnCall.pr.Body) : fnCall.pr.Body[i] \notin {"[", "WARN"}) =>
              ~fnResult.warning

\* A body holding [MIGRATION] in upper case was found to carry the warning
C24_Witness ==
    /\ Returned("hasMigrationWarning")
    /\ fnCall.pr.Body = <<"[", "M", "I", "G", "R", "A", "T", "I", "O", "N", "]">>
    /\ fnResult.warning

----------------------------------------------------------------------------
(* Config.AddRepository and Config.RemoveRepository, SpecConfig *)

\* Most AddRepository and RemoveRepository calls made on one Config
MaxConfigCalls == 4

\* Repository names the calls are made with
RepoNames == {"owner/repo1", "owner/repo2", "konflux/repo1"}

RepositoryConfig(name, konflux) == [Name |-> name, Konflux |-> konflux]

\* DefaultConfig().Repositories
DefaultRepositories == << >>

\* AddRepository appending without looking for the name
AddRepositoryAlwaysAppend(repositories, repo, isKonflux) ==
    [ok |-> TRUE,
     Repositories |-> Append(repositories, RepositoryConfig(repo, isKonflux))]

\* c.AddRepository(repo, isKonflux): the value returned and c.Repositories
\* after the call
AddRepository(repositories, repo, isKonflux) ==
    IF \E i \in 1..Len(repositories) : repositories[i].Name = repo
    THEN LET i == CHOOSE k \in 1..Len(repositories) :
                     /\ repositories[k].Name = repo
                     /\ \A j \in 1..(k - 1) : repositories[j].Name # repo
         IN  IF isKonflux /\ ~repositories[i].Konflux
             THEN [ok |-> TRUE,
                   Repositories |-> [repositories EXCEPT ![i].Konflux = TRUE]]
             ELSE [ok |-> FALSE, Repositories |-> repositories]
    ELSE [ok |-> TRUE,
          Repositories |-> Append(repositories, RepositoryConfig(repo, isKonflux))]

\* The loop of RemoveRepository from index i on (1-based)
RECURSIVE RemoveFrom(_, _, _, _)
RemoveFrom(repositories, i, repo, isKonflux) ==
    IF i > Len(repositories)
    THEN [ok |-> FALSE, Repositories |-> repositories]
    ELSE IF repositories[i].Name = repo /\ isKonflux /\ repositories[i].Konflux
         THEN [ok |-> TRUE,
               Repositories |-> [repositories EXCEPT ![i].Konflux = FALSE]]
         ELSE IF repositories[i].Name = repo /\ ~isKonflux
              THEN [ok |-> TRUE,
                    Repositories |-> SubSeq(repositories, 1, i - 1) \o
                                     SubSeq(repositories, i + 1, Len(repositories))]
              ELSE RemoveFrom(repositories, i + 1, repo, isKonflux)

\* c.RemoveRepository(repo, isKonflux)
RemoveRepository(repositories, repo, isKonflux) ==
    RemoveFrom(repositories, 1, repo, isKonflux)

\* The Config and the last call made on it
ConfigState(repositories, calls, last) ==
    [fn |-> "Config", Repositories |-> repositories, calls |-> calls, last |-> last]

NoConfigCall == [op |-> "none"]

InitConfig ==
    /\ fnCall = [fn |-> "Config"]
    /\ fnResult = ConfigState(DefaultRepositories, 0, NoConfigCall)
    /\ cache = NewPRDetailsCache
    /\ detailsGets = << >>
    /\ CacheIdle
    /\ SessIdle
    /\ ConcIdle

ConfigCall(op, repo, isKonflux, r) ==
    /\ fnCall.fn = "Config"
    /\ fnResult.calls < MaxConfigCalls
    /\ fnResult' = ConfigState(r.Repositories, fnResult.calls + 1,
                               [op |-> op, repo |-> repo, isKonflux |-> isKonflux,
                                ok |-> r.ok, before |-> fnResult.Repositories])
    /\ UNCHANGED <<fnCall, cache, detailsGets, cacheVars, sessVars, concVars>>

CallAddRepository ==
    \E repo \in RepoNames : \E isKonflux \in BOOLEAN :
        ConfigCall("AddRepository", repo, isKonflux,
                   AddRepository(fnResult.Repositories, repo, isKonflux))

CallRemoveRepository ==
    \E repo \in RepoNames : \E isKonflux \in BOOLEAN :
        ConfigCall("RemoveRepository", repo, isKonflux,
                   RemoveRepository(fnResult.Repositories, repo, isKonflux))

NextConfig ==
    \/ CallAddRepository
    \/ CallRemoveRepository

SpecConfig == InitConfig /\ [][NextConfig]_vars

----------------------------------------------------------------------------
(* Claims about the Config, checked under SpecConfig *)

\* C25: after any sequence of AddRepository and RemoveRepository calls from
\* the default config no two entries have the same name, and AddRepository
\* returns true exactly when it changed the config: a new name is appended
\* with the given Konflux flag, an existing entry that is not Konflux is made
\* Konflux with the list as long as before; re-adding an existing name
\* otherwise returns false and changes nothing.
C25_RepositoriesUnique ==
    fnCall.fn = "Config" =>
        LET after == fnResult.Repositories
            last  == fnResult.last
        IN  /\ \A i, j \in 1..Len(after) : after[i].Name = after[j].Name => i = j
            /\ last.op = "AddRepository" =>
                  LET before == last.before
                      at     == { i \in 1..Len(before) : before[i].Name = last.repo }
                  IN  /\ last.ok <=> after # before
                      /\ at = {} =>
                            /\ last.ok
                            /\ after = before \o <<[Name |-> last.repo, Konflux |-> last.isKonflux]>>
                      /\ \A i \in at :
                            IF last.isKonflux /\ ~before[i].Konflux
                            THEN /\ last.ok
                                 /\ Len(after) = Len(before)
                                 /\ after[i].Konflux
                                 /\ \A k \in 1..Len(before) : k # i => after[k] = before[k]
                            ELSE ~last.ok /\ after = before

\* After an entry was removed, an entry that was not Konflux was made Konflux
\* by AddRepository in a list of two
C25_Witness ==
    /\ fnCall.fn = "Config"
    /\ fnResult.calls = MaxConfigCalls
    /\ fnResult.last.op = "AddRepository"
    /\ fnResult.last.ok
    /\ Len(fnResult.last.before) = 2
    /\ Len(fnResult.Repositories) = 2
    /\ fnResult.last.before[1].Name = "owner/repo2"

----------------------------------------------------------------------------
(* Claims about the session as a whole, checked under Spec *)

\* The prompts of a review round
RoundPrompts == {"continueAnyway", "decision", "holdComment", "commentText", "migrationConfirm"}

\* The numbers of the listed PRs
ListedNumbers == { pullRequests[i].Number : i \in 1..Len(pullRequests) }

\* C26: each PR goes through at most one review round: a round starts only
\* for a PR that is not processed, stays with that PR, and when it returns to
\* the session loop the PR is marked processed whatever the result; so no PR
\* gets more than one approval review POST, and as every round adds a listed
\* PR to the processed set there are at most as many rounds as listed PRs.
C26_OneRoundPerPR ==
    [][ /\ (pc = "select" /\ pc' \in RoundPrompts) =>
              /\ selected' \in ListedNumbers
              /\ selected' \notin processedPRs
              /\ processedPRs' = processedPRs
        /\ (pc \in RoundPrompts /\ pc' \in RoundPrompts) =>
              /\ selected' = selected
              /\ processedPRs' = processedPRs
        /\ (pc \in RoundPrompts /\ pc' \in {"select", "done"}) =>
              /\ selected \notin processedPRs
              /\ processedPRs' = processedPRs \cup {selected}
              /\ \A i \in 1..Len(ApprovablePRs(processedPRs')) :
                     ApprovablePRs(processedPRs')[i].Number # selected
        /\ \A n \in ListedNumbers : reviewPosts'[n] <= 1
        /\ Cardinality(processedPRs') <= Len(pullRequests)
      ]_vars

\* C26 witness: two listed PRs, each approved in its own round; the session
\* is over with one review POST for each.
C26_Witness ==
    /\ pc = "done"
    /\ Len(pullRequests) = 2
    /\ processedPRs = {1, 2}
    /\ reviewPosts[1] = 1
    /\ reviewPosts[2] = 1
    /\ approvedCount = 2

\* The number a line typed at the selection prompt stands for (0: none)
NumberTyped(inp) ==
    IF inp.kind = "line" /\ \E k \in 1..(MaxPRs + 1) : inp.text \in {ToString(k), "#" \o ToString(k)}
    THEN CHOOSE k \in 1..(MaxPRs + 1) : inp.text \in {ToString(k), "#" \o ToString(k)}
    ELSE 0

\* The line is a number that cannot be selected now (the PR is closed, draft,
\* on hold, processed or not listed), or it is no number at all
Unselectable(inp) ==
    \/ inp = Line("abc")
    \/ /\ NumberTyped(inp) # 0
       /\ \/ NumberTyped(inp) \notin ListedNumbers
          \/ NumberTyped(inp) \in processedPRs
          \/ LET pr == PRByNumber(NumberTyped(inp))
             IN  pr.State # "open" \/ pr.Draft \/ HoldLabel \in pr.Labels

\* C27: a review round, and so every review, comment and label POST, is
\* started only for a listed PR that is open, not draft and without the
\* do-not-merge/hold label; a line that names a closed, draft, on-hold,
\* processed or unlisted PR, or that is not a number, is rejected: the
\* selection prompt is shown again, the processed set and all counters as
\* they were, and nothing is posted.
C27_OnlyEligibleSelected ==
    [][ /\ (pc = "select" /\ pc' \in RoundPrompts) =>
              /\ selected' \in ListedNumbers
              /\ LET pr == PRByNumber(selected')
                 IN  pr.State = "open" /\ ~pr.Draft /\ HoldLabel \notin pr.Labels
        /\ \A i \in 1..Len(lastPosts') :
              /\ pc \in RoundPrompts
              /\ lastPosts'[i].pr = selected
              /\ LET pr == PRByNumber(selected)
                 IN  pr.State = "open" /\ ~pr.Draft /\ HoldLabel \notin pr.Labels
        /\ \A inp \in SelectInputs :
              (SelectInput(inp) /\ Unselectable(inp)) =>
                  /\ pc' = "select"
                  /\ selected' = 0
                  /\ tallies' = tallies
                  /\ lastPosts' = << >>
                  /\ reviewPosts' = reviewPosts
      ]_vars

\* C27 witness: with PR 1 processed and PR 2 still to approve, a line was
\* rejected at the selection prompt, which is shown again
C27_Witness ==
    /\ pc = "select"
    /\ lastPrompt = "select"
    /\ selected = 0
    /\ processedPRs = {1}
    /\ Len(ApprovablePRs(processedPRs)) = 1

\* C28: during one session the details endpoint repos/o/r/pulls/{n} is
\* fetched at most once for each PR number, however often the table is shown
\* again and whatever detail views were opened, and never for a PR on hold.
C28_DetailsFetchedOnce ==
    pc # "start" =>
        \A n \in ListedNumbers :
            /\ detailsGets[n] <= 1
            /\ HoldLabel \in PRByNumber(n).Labels => detailsGets[n] = 0

\* C28 witness: the table was shown, PR 1 went through its detail view and a
\* round, and the table was shown again: one details Get for each of the two
\* PRs
C28_Witness ==
    /\ pc = "select"
    /\ processedPRs = {1}
    /\ lastResult # "None"
    /\ Len(pullRequests) = 2
    /\ detailsGets[1] = 1
    /\ detailsGets[2] = 1

\* "Total processed" of the final summary
TotalProcessed == approvedCount + skippedCount + heldCount + commentedCount

\* C29: every PR marked processed is tallied in exactly one of the four
\* counters, except the PR at whose decision prompt the user chose Quit,
\* which is marked processed and tallied in none; so the total of the summary
\* is the number of processed PRs, or one less after a Quit from a decision
\* prompt.
C29_TalliesMatchProcessed ==
    /\ [](TotalProcessed = Cardinality(processedPRs) - (IF lastResult = "Quit" THEN 1 ELSE 0))
    /\ [][ processedPRs' # processedPRs =>
              /\ processedPRs' = processedPRs \cup {selected}
              /\ selected \notin processedPRs
              /\ IF lastResult' = "Quit"
                 THEN /\ counters' = counters
                      /\ pc = "decision"
                      /\ \E inp \in {Line("q"), Line("quit")} : DecisionInput(inp)
                 ELSE /\ TotalProcessed' = TotalProcessed + 1
                      /\ approvedCount'  = approvedCount  + (IF lastResult' = "Approve" THEN 1 ELSE 0)
                      /\ skippedCount'   = skippedCount   + (IF lastResult' = "Skip" THEN 1 ELSE 0)
                      /\ heldCount'      = heldCount      + (IF lastResult' = "Hold" THEN 1 ELSE 0)
                      /\ commentedCount' = commentedCount + (IF lastResult' = "Comment" THEN 1 ELSE 0)
                      /\ lastResult' \in {"Approve", "Skip", "Hold", "Comment"}
         ]_vars
    /\ [][ processedPRs' = processedPRs => counters' = counters ]_vars

\* C29 witness: the summary after one PR was skipped and the user quit at the
\* decision prompt of the other: two processed, a total of one
C29_Witness ==
    /\ pc = "done"
    /\ summaryPrinted
    /\ lastResult = "Quit"
    /\ Cardinality(processedPRs) = 2
    /\ skippedCount = 1
    /\ TotalProcessed = 1

\* C30: a PR whose approval review POST fails is resolved as Skip: it is
\* counted under Skipped and marked processed, and it cannot be selected
\* again: typing its number is rejected, no round starts for a PR that had a
\* review POST, and no PR gets a second review POST in the session.
C30_FailedApprovalNoRetry ==
    [][ /\ (reviewPosts' # reviewPosts /\ ~lastPosts'[1].ok) =>
              /\ lastResult' = "Skip"
              /\ skippedCount' = skippedCount + 1
              /\ heldCount' = heldCount
              /\ commentedCount' = commentedCount
              /\ selected \in processedPRs'
              /\ \A i \in 1..Len(ApprovablePRs(processedPRs')) :
                     ApprovablePRs(processedPRs')[i].Number # selected
        /\ \A n \in ListedNumbers :
              reviewPosts[n] >= 1 =>
                  /\ n \in processedPRs
                  /\ reviewPosts'[n] = reviewPosts[n]
                  /\ (pc = "select" /\ pc' \in RoundPrompts) => selected' # n
                  /\ \A inp \in {Line(ToString(n)), Line("#" \o ToString(n))} :
                        SelectInput(inp) => pc' = "select" /\ selected' = 0 /\ tallies' = tallies
      ]_vars

\* C30 witness: the review POST of PR 1 failed and was counted as skipped;
\* after that a line typed at the selection prompt was rejected, PR 2 being
\* the only one left to select
C30_Witness ==
    /\ pc = "select"
    /\ lastPrompt = "select"
    /\ selected = 0
    /\ processedPRs = {1}
    /\ reviewPosts[1] = 1
    /\ approvedCount = 0
    /\ skippedCount = 1
    /\ Len(ApprovablePRs(processedPRs)) = 1
    /\ ApprovablePRs(processedPRs)[1].Number = 2

====
